---------------------------- MODULE Spec2Model ----------------------------
(***************************************************************************)
(* Transcript normalisation adapters of ai-transcripts.                    *)
(*                                                                         *)
(*   claude   : TranscriptParser        (src/src/parse.ts, format.ts)      *)
(*   codex    : CodexTranscriptParser   (codex/parse.ts, carried in        *)
(*              src/README.md from line 463 on)                            *)
(*   opencode : formatSession           (src/src/opencode/parse.ts)        *)
(*                                                                         *)
(* Text is modelled as a sequence of tokens.  A token is either one        *)
(* character of input text (" ", "<", "a", "\n", ...) or a literal         *)
(* fragment of a template string ("Session: ").  The emoji tags are the    *)
(* tokens of EMOJI.  JavaScript's undefined and null are the tokens        *)
(* Undefined and Null where a string or boolean is expected, and the       *)
(* records NoObject / NullObject where an object is expected.              *)
(***************************************************************************)
EXTENDS Integers, Sequences, FiniteSets, TLC

VARIABLES
    adapter,          \* which parser instance this session runs
    pc,               \* "open" until finalize() has returned, then "finalized"
    nParsed,          \* number of parse() calls made so far
    pendingTools,     \* TranscriptParser.pendingTools
    pendingFunctions, \* CodexTranscriptParser.pendingFunctions
    metadata,         \* .metadata
    metadataEmitted,  \* .metadataEmitted
    currentModel,     \* .currentModel
    stats,            \* .stats
    data,             \* what loadSession() returned for the session
    out,              \* return value of the most recent parse()/finalize(),
                      \* or of formatSession()
    emitted,          \* history: number of lines written so far, per tag
    open,             \* history: call IDs requested and not answered since
    answered,         \* history: results that answered an open request
    closed,           \* history: call IDs answered and not requested since
    stray,            \* history: results whose call ID was never requested
    repeats,          \* history: results whose call ID was already answered
    textsSeen,        \* history: user/assistant texts carried by the input
    firstRecord,      \* history: the envelope of the first record parsed
    failed,           \* history: answering results that were flagged errors
    modelsSeen,       \* history: the model of each assistant message or turn
                      \* context parsed
    ignored,          \* history: blank and unparseable lines given to parse()
    written,          \* history: the kind of each line returned so far
    lastSeen,         \* history: the timestamp of the last record parsed
    inputLines,       \* processFile: the lines of the input file, as records
    unavailable,      \* history: the kinds of entity of the session's storage
                      \* that were missing or unreadable when it was loaded
    instances,        \* two sessions: the parser object of each session, with
                      \* the records it was given and the text it returned
    heap,             \* two sessions: the Map objects the parsers refer to
    stdin,            \* streamMode: the chunks of Bun.stdin.stream() and how
                      \* many of them were read
    buffer            \* streamMode: the text read and not yet given to parse()

vars == <<adapter, pc, nParsed, pendingTools, pendingFunctions, metadata, metadataEmitted,
          currentModel, stats, data, out, emitted, open, answered, closed, stray,
          repeats, textsSeen, firstRecord, failed, modelsSeen, ignored,
          written, lastSeen, inputLines, unavailable,
          instances, heap, stdin, buffer>>

-----------------------------------------------------------------------------
(* Bounds *)

MaxRecords == 3

-----------------------------------------------------------------------------
(* JavaScript values *)

Undefined == "undefined"
Null == "null"
JsTrue == "true"
JsFalse == "false"
NullObject == [null |-> TRUE]
NoObject == [undefined |-> TRUE]

\* ToBoolean of a string / boolean / undefined slot
Truthy(v) == v \notin {Undefined, Null, JsFalse, ""}

\* ToBoolean of a string held as a token sequence
NonEmpty(s) == Len(s) > 0

IsSpace(c) == c \in {" ", "\n", "\t"}

RECURSIVE TrimStart(_)
TrimStart(s) ==
    IF Len(s) > 0 /\ IsSpace(Head(s)) THEN TrimStart(Tail(s)) ELSE s

RECURSIVE TrimEnd(_)
TrimEnd(s) ==
    IF Len(s) > 0 /\ IsSpace(s[Len(s)])
    THEN TrimEnd(SubSeq(s, 1, Len(s) - 1))
    ELSE s

\* String.prototype.trim
Trim(s) == TrimEnd(TrimStart(s))

\* String.prototype.startsWith for a one-token prefix
StartsWith(s, c) == Len(s) > 0 /\ Head(s) = c

\* Map.set / Map.delete / Map.has on a map held as a function
MapSet(m, k, v) == [x \in DOMAIN m \cup {k} |-> IF x = k THEN v ELSE m[x]]
MapDelete(m, k) == [x \in DOMAIN m \ {k} |-> m[x]]
MapHas(m, k) == k \in DOMAIN m
EmptyMap == [x \in {} |-> x]


-----------------------------------------------------------------------------
(* format.ts *)

\* The emoji tags; each is one token.
\*   metadata U+1F4CB, user U+1F464, assistant U+1F916, toolPending U+1F527,
\*   toolSuccess U+2705, toolFailure U+274C, queue U+23F3
EMOJI ==
    [metadata |-> "[clipboard]", user |-> "[bust]", assistant |-> "[robot]",
     toolPending |-> "[wrench]", toolSuccess |-> "[check]",
     toolFailure |-> "[cross]", queue |-> "[hourglass]"]

\* Template interpolation ${v} of a string-or-undefined slot
Interp(v) == <<v>>

RECURSIVE Join(_, _)
\* Array.prototype.join
Join(lines, sep) ==
    IF Len(lines) = 0 THEN <<>>
    ELSE IF Len(lines) = 1 THEN lines[1]
    ELSE lines[1] \o sep \o Join(Tail(lines), sep)

formatMetadata(meta) ==
    LET lines ==
            << <<EMOJI.metadata, " ", "Session: ">> \o Interp(meta.sessionId),
               <<EMOJI.metadata, " ", "Project: ">> \o Interp(meta.project),
               <<EMOJI.metadata, " ", "Started: ">> \o Interp(meta.started),
               <<EMOJI.metadata, " ", "Version: ">> \o Interp(meta.version) >>
        withBranch ==
            IF Truthy(meta.gitBranch)
            THEN Append(lines, <<EMOJI.metadata, " ", "Branch: ">>
                               \o Interp(meta.gitBranch))
            ELSE lines
    IN  Join(withBranch, <<"\n">>) \o <<"\n">>

formatUserMessage(content) ==
    LET text == Trim(content)
    IN  IF ~NonEmpty(text) THEN <<>>
        ELSE <<EMOJI.user, " ">> \o text \o <<"\n">>

formatAssistantText(text) ==
    LET trimmed == Trim(text)
    IN  IF ~NonEmpty(trimmed) THEN <<>>
        ELSE <<EMOJI.assistant, " ">> \o trimmed \o <<"\n">>

\* The commands of the model are far shorter than this; the slice never cuts.
BashMaxLen == 200

RECURSIVE CollapseNewlines(_)
\* cmd.replace(/\n/g, " <return> ")
CollapseNewlines(s) ==
    IF Len(s) = 0 THEN <<>>
    ELSE (IF Head(s) = "\n" THEN <<" ", "[return]", " ">> ELSE <<Head(s)>>)
         \o CollapseNewlines(Tail(s))

formatBashInput(input) ==
    LET cmd == IF NonEmpty(input.command) THEN input.command ELSE <<>>
        truncated ==
            IF Len(cmd) > BashMaxLen
            THEN SubSeq(cmd, 1, BashMaxLen) \o <<"...">>
            ELSE cmd
    IN  CollapseNewlines(truncated)

\* The cases of the switch that the tool names of the model reach.
formatToolInput(toolName, input) ==
    CASE toolName = "Bash" -> formatBashInput(input)
      [] toolName \in {"Read", "Write", "Edit"} ->
            <<"file=\"">> \o Interp(input.file_path) \o <<"\"">>
      [] toolName \in {"Glob", "Grep"} ->
            <<"pattern=\"">> \o Interp(input.pattern) \o <<"\"">>
            \o (IF Truthy(input.path)
                THEN <<" path=\"">> \o Interp(input.path) \o <<"\"">>
                ELSE <<>>)
      [] OTHER -> <<"JSON.stringify(input)">>

formatToolCall(tool, isError) ==
    LET emoji == IF isError THEN EMOJI.toolFailure ELSE EMOJI.toolSuccess
        params == formatToolInput(tool.name, tool.input)
    IN  <<emoji, " ", tool.name, ": ">> \o params \o <<"\n">>

\* content.match(/<summary>([^<]+)<\/summary>/) is not modelled: the queue
\* contents of the model carry no <summary> element and are under 100 long.
QueueMaxLen == 100

formatQueueOperation(content) ==
    LET summary == SubSeq(content, 1, IF Len(content) < QueueMaxLen
                                      THEN Len(content) ELSE QueueMaxLen)
    IN  <<EMOJI.queue, " ">> \o Trim(summary) \o <<"\n">>

\* claude-<name>-<major>-<minor>-<date> -> <name>-<major>.<minor>
shortenModelName(model) ==
    CASE model = "<synthetic>" -> "synthetic"
      [] model = "claude-opus-4-5-20251101" -> "opus-4.5"
      [] model = "claude-sonnet-4-5-20250929" -> "sonnet-4.5"
      [] OTHER -> model

formatModelChange(model) ==
    <<EMOJI.metadata, " ", "Model: ", shortenModelName(model), "\n">>

\* new Date(s).getTime() in milliseconds, NaN as -1, on the timestamps of the model
GetTime(ts) ==
    CASE ts = "2025-01-01T00:00:00Z" -> 0
      [] ts = "2025-01-01T00:00:45Z" -> 45000
      [] ts = "2025-01-01T00:12:00Z" -> 720000
      [] ts = "2025-01-01T01:04:00Z" -> 3840000
      [] OTHER -> -1

MsPerSecond == 1000
SecondsPerMinute == 60
MinutesPerHour == 60

\* formatDuration of format.ts; the empty text stands for null (a duration
\* that is rendered is never empty)
NoDuration == <<>>

\* The hours followed by all the minutes, the whole hours among them
formatDurationAllMinutes(start, end) ==
    LET s == GetTime(start)
        e == GetTime(end)
        isNaN == s < 0 \/ e < 0
        ms == e - s
        seconds == ms \div MsPerSecond
        minutes == seconds \div SecondsPerMinute
        hours == minutes \div MinutesPerHour
    IN  IF isNaN \/ ms < 0 THEN NoDuration
        ELSE IF hours > 0
             THEN <<ToString(hours), "h ", ToString(minutes), "m">>
        ELSE IF minutes > 0 THEN <<ToString(minutes), "m">>
        ELSE <<ToString(seconds), "s">>

formatDuration(start, end) ==
    LET s == GetTime(start)
        e == GetTime(end)
        isNaN == s < 0 \/ e < 0
        ms == e - s
        seconds == ms \div MsPerSecond
        minutes == seconds \div SecondsPerMinute
        hours == minutes \div MinutesPerHour
    IN  IF isNaN \/ ms < 0 THEN NoDuration
        ELSE IF hours > 0
             THEN <<ToString(hours), "h ", ToString(minutes % MinutesPerHour), "m">>
        ELSE IF minutes > 0 THEN <<ToString(minutes), "m">>
        ELSE <<ToString(seconds), "s">>

Thousand == 1000
Million == 1000000

\* (n / unit).toFixed(1)
ToFixed1(n, unit) ==
    LET tenths == (n * 10 + unit \div 2) \div unit
    IN  <<ToString(tenths \div 10), ".", ToString(tenths % 10)>>

formatTokens(n) ==
    IF n >= Million THEN ToFixed1(n, Million) \o <<"M">>
    ELSE IF n >= Thousand THEN ToFixed1(n, Thousand) \o <<"K">>
    ELSE <<ToString(n)>>

\* Every resolved call counted as one file, whatever its path
FileCountsPerCall(st) ==
    [read |-> st.toolCalls, written |-> Cardinality(st.filesWritten),
     edited |-> Cardinality(st.filesEdited)]

\* stats.filesRead.size, stats.filesWritten.size, stats.filesEdited.size
FileCounts(st) ==
    [read |-> Cardinality(st.filesRead),
     written |-> Cardinality(st.filesWritten),
     edited |-> Cardinality(st.filesEdited)]

formatSummary(st, startTime) ==
    LET head == << <<>>, <<EMOJI.metadata, " ", "--- Summary ---">> >>
        duration ==
            IF Truthy(startTime) /\ Truthy(st.lastTimestamp)
            THEN formatDuration(startTime, st.lastTimestamp)
            ELSE NoDuration
        durationLines ==
            IF duration # NoDuration
            THEN << <<EMOJI.metadata, " ", "Duration: ">> \o duration >>
            ELSE <<>>
        counts ==
            << <<EMOJI.metadata, " ", "Messages: ", ToString(st.userMessages),
                 " user, ", ToString(st.assistantMessages), " assistant">>,
               <<EMOJI.metadata, " ", "Tool calls: ", ToString(st.toolCalls),
                 " total, ", ToString(st.toolErrors), " failed">> >>
        filesRead == FileCounts(st).read
        filesWritten == FileCounts(st).written
        filesEdited == FileCounts(st).edited
        parts ==
            (IF filesRead > 0 THEN << <<ToString(filesRead), " read">> >> ELSE <<>>)
            \o (IF filesWritten > 0
                THEN << <<ToString(filesWritten), " written">> >> ELSE <<>>)
            \o (IF filesEdited > 0
                THEN << <<ToString(filesEdited), " edited">> >> ELSE <<>>)
        fileLines ==
            IF filesRead > 0 \/ filesWritten > 0 \/ filesEdited > 0
            THEN << <<EMOJI.metadata, " ", "Files: ">> \o Join(parts, <<", ">>) >>
            ELSE <<>>
        tokenLines ==
            << <<EMOJI.metadata, " ", "Tokens: ">> \o formatTokens(st.inputTokens)
               \o <<" in, ">> \o formatTokens(st.outputTokens) \o <<" out">> >>
        cacheLines ==
            IF st.cacheReadTokens > 0 \/ st.cacheCreationTokens > 0
            THEN << <<EMOJI.metadata, " ", "Cache: ">>
                    \o formatTokens(st.cacheReadTokens) \o <<" read, ">>
                    \o formatTokens(st.cacheCreationTokens) \o <<" created">> >>
            ELSE <<>>
    IN  Join(head \o durationLines \o counts \o fileLines \o tokenLines
             \o cacheLines, <<"\n">>) \o <<"\n">>


-----------------------------------------------------------------------------
(* parse.ts: TranscriptParser *)

\* The fields of one parser instance, passed through the private methods.
Self == [pendingTools |-> pendingTools, metadata |-> metadata,
         metadataEmitted |-> metadataEmitted, currentModel |-> currentModel,
         stats |-> stats]

\* Field initialisers of the class
InitStats ==
    [userMessages |-> 0, assistantMessages |-> 0, toolCalls |-> 0,
     toolErrors |-> 0, inputTokens |-> 0, outputTokens |-> 0,
     cacheCreationTokens |-> 0, cacheReadTokens |-> 0,
     filesRead |-> {}, filesWritten |-> {}, filesEdited |-> {},
     lastTimestamp |-> Null]

\* processToolResult without the delete: the entry stays in the store
processToolResultKeepsEntry(self, block) ==
    IF ~MapHas(self.pendingTools, block.tool_use_id)
    THEN [self |-> self, output |-> <<>>]
    ELSE LET pending == self.pendingTools[block.tool_use_id]
             st0 == self.stats
             st1 == [st0 EXCEPT !.toolCalls = @ + 1,
                                !.toolErrors = IF Truthy(block.is_error)
                                               THEN @ + 1 ELSE @]
         IN  [self |-> [self EXCEPT !.stats = st1],
              output |-> formatToolCall(pending, block.is_error = JsTrue)]

\* processToolResult tracking file operations whatever the result
processToolResultTracksErrors(self, block) ==
    IF ~MapHas(self.pendingTools, block.tool_use_id)
    THEN [self |-> self, output |-> <<>>]
    ELSE LET pending == self.pendingTools[block.tool_use_id]
             st0 == self.stats
             st1 == [st0 EXCEPT !.toolCalls = @ + 1,
                                !.toolErrors = IF Truthy(block.is_error)
                                               THEN @ + 1 ELSE @]
             filePath == pending.input.file_path
             st2 ==
                 IF Truthy(filePath)
                 THEN CASE pending.name = "Read" ->
                              [st1 EXCEPT !.filesRead = @ \cup {filePath}]
                        [] pending.name = "Write" ->
                              [st1 EXCEPT !.filesWritten = @ \cup {filePath}]
                        [] pending.name = "Edit" ->
                              [st1 EXCEPT !.filesEdited = @ \cup {filePath}]
                        [] OTHER -> st1
                 ELSE st1
         IN  [self |-> [self EXCEPT
                           !.pendingTools = MapDelete(@, block.tool_use_id),
                           !.stats = st2],
              output |-> formatToolCall(pending, block.is_error = JsTrue)]

\* processToolResult counting and rendering a result with no pending entry
processToolResultUnknownCounts(self, block) ==
    LET known == MapHas(self.pendingTools, block.tool_use_id)
        pending == IF known THEN self.pendingTools[block.tool_use_id]
                   ELSE [name |-> "unknown",
                         input |-> [file_path |-> Undefined]]
        st0 == self.stats
        st1 == [st0 EXCEPT !.toolCalls = @ + 1,
                           !.toolErrors = IF Truthy(block.is_error)
                                          THEN @ + 1 ELSE @]
    IN  [self |-> [self EXCEPT
                      !.pendingTools = MapDelete(@, block.tool_use_id),
                      !.stats = st1],
         output |-> formatToolCall(pending, block.is_error = JsTrue)]

\* processToolResult that holds in toolErrors whether the latest result failed
processToolResultLastError(self, block) ==
    IF ~MapHas(self.pendingTools, block.tool_use_id)
    THEN [self |-> self, output |-> <<>>]
    ELSE LET pending == self.pendingTools[block.tool_use_id]
             st0 == self.stats
             st1 == [st0 EXCEPT !.toolCalls = @ + 1,
                                !.toolErrors = IF Truthy(block.is_error)
                                               THEN 1 ELSE 0]
             filePath == pending.input.file_path
             st2 ==
                 IF Truthy(filePath) /\ ~Truthy(block.is_error)
                 THEN CASE pending.name = "Read" ->
                              [st1 EXCEPT !.filesRead = @ \cup {filePath}]
                        [] pending.name = "Write" ->
                              [st1 EXCEPT !.filesWritten = @ \cup {filePath}]
                        [] pending.name = "Edit" ->
                              [st1 EXCEPT !.filesEdited = @ \cup {filePath}]
                        [] OTHER -> st1
                 ELSE st1
         IN  [self |-> [self EXCEPT
                           !.pendingTools = MapDelete(@, block.tool_use_id),
                           !.stats = st2],
              output |-> formatToolCall(pending, block.is_error = JsTrue)]

processToolResult(self, block) ==
    IF ~MapHas(self.pendingTools, block.tool_use_id)
    THEN [self |-> self, output |-> <<>>]
    ELSE LET pending == self.pendingTools[block.tool_use_id]
             st0 == self.stats
             st1 == [st0 EXCEPT !.toolCalls = @ + 1,
                                !.toolErrors = IF Truthy(block.is_error)
                                               THEN @ + 1 ELSE @]
             filePath == pending.input.file_path
             st2 ==
                 IF Truthy(filePath) /\ ~Truthy(block.is_error)
                 THEN CASE pending.name = "Read" ->
                              [st1 EXCEPT !.filesRead = @ \cup {filePath}]
                        [] pending.name = "Write" ->
                              [st1 EXCEPT !.filesWritten = @ \cup {filePath}]
                        [] pending.name = "Edit" ->
                              [st1 EXCEPT !.filesEdited = @ \cup {filePath}]
                        [] OTHER -> st1
                 ELSE st1
         IN  [self |-> [self EXCEPT
                           !.pendingTools = MapDelete(@, block.tool_use_id),
                           !.stats = st2],
              output |-> formatToolCall(pending, block.is_error = JsTrue)]

RECURSIVE UserBlocksKeepMarkup(_, _)
\* The loop of parseUserRecord over an array content without the test of a
\* leading "<"
UserBlocksKeepMarkup(blocks, acc) ==
    IF Len(blocks) = 0 THEN acc
    ELSE LET block == Head(blocks)
             next ==
                 IF block.type = "text"
                 THEN [acc EXCEPT
                          !.output = @ \o formatUserMessage(block.text),
                          !.hasUserContent = TRUE]
                 ELSE IF block.type = "tool_result"
                 THEN LET r == processToolResult(acc.self, block)
                      IN  [acc EXCEPT !.self = r.self,
                                      !.output = @ \o r.output]
                 ELSE acc
         IN  UserBlocksKeepMarkup(Tail(blocks), next)

RECURSIVE UserBlocks(_, _)
\* The loop of parseUserRecord over an array content; acc carries the
\* parser, the output so far and hasUserContent.
UserBlocks(blocks, acc) ==
    IF Len(blocks) = 0 THEN acc
    ELSE LET block == Head(blocks)
             next ==
                 IF block.type = "text"
                 THEN IF StartsWith(block.text, "<") THEN acc
                      ELSE [acc EXCEPT
                               !.output = @ \o formatUserMessage(block.text),
                               !.hasUserContent = TRUE]
                 ELSE IF block.type = "tool_result"
                 THEN LET r == processToolResult(acc.self, block)
                      IN  [acc EXCEPT !.self = r.self,
                                      !.output = @ \o r.output]
                 ELSE acc
         IN  UserBlocks(Tail(blocks), next)

\* parseUserRecord counting every user record that has an array content
parseUserRecordCountsResults(self, record) ==
    IF Truthy(record.isMeta) THEN [self |-> self, output |-> <<>>]
    ELSE IF record.message.role # "user" THEN [self |-> self, output |-> <<>>]
    ELSE IF record.message.content.kind = "string"
    THEN IF StartsWith(record.message.content.text, "<")
         THEN [self |-> self, output |-> <<>>]
         ELSE [self |-> [self EXCEPT !.stats.userMessages = @ + 1],
               output |-> formatUserMessage(record.message.content.text)]
    ELSE LET acc == UserBlocks(record.message.content.blocks,
                               [self |-> self, output |-> <<>>,
                                hasUserContent |-> FALSE])
         IN  [self |-> [acc.self EXCEPT !.stats.userMessages = @ + 1],
              output |-> acc.output]

parseUserRecord(self, record) ==
    IF Truthy(record.isMeta) THEN [self |-> self, output |-> <<>>]
    ELSE IF record.message.role # "user" THEN [self |-> self, output |-> <<>>]
    ELSE IF record.message.content.kind = "string"
    THEN IF StartsWith(record.message.content.text, "<")
         THEN [self |-> self, output |-> <<>>]
         ELSE [self |-> [self EXCEPT !.stats.userMessages = @ + 1],
               output |-> formatUserMessage(record.message.content.text)]
    ELSE LET acc == UserBlocks(record.message.content.blocks,
                               [self |-> self, output |-> <<>>,
                                hasUserContent |-> FALSE])
         IN  [self |-> [acc.self EXCEPT
                           !.stats.userMessages =
                               IF acc.hasUserContent THEN @ + 1 ELSE @],
              output |-> acc.output]

RECURSIVE AssistantBlocksKeepFirst(_, _)
\* The loop of parseAssistantRecord over message.content with a store that
\* keeps the entry it already has for a call ID
AssistantBlocksKeepFirst(blocks, acc) ==
    IF Len(blocks) = 0 THEN acc
    ELSE LET block == Head(blocks)
             next ==
                 IF block.type = "text"
                 THEN [acc EXCEPT
                          !.output = @ \o formatAssistantText(block.text),
                          !.hasTextContent = TRUE]
                 ELSE IF block.type = "tool_use"
                         /\ ~MapHas(acc.self.pendingTools, block.id)
                 THEN [acc EXCEPT
                          !.self.pendingTools =
                              MapSet(@, block.id,
                                     [name |-> block.name, input |-> block.input])]
                 ELSE acc
         IN  AssistantBlocksKeepFirst(Tail(blocks), next)

RECURSIVE AssistantBlocks(_, _)
\* The loop of parseAssistantRecord over message.content
AssistantBlocks(blocks, acc) ==
    IF Len(blocks) = 0 THEN acc
    ELSE LET block == Head(blocks)
             next ==
                 IF block.type = "text"
                 THEN [acc EXCEPT
                          !.output = @ \o formatAssistantText(block.text),
                          !.hasTextContent = TRUE]
                 ELSE IF block.type = "tool_use"
                 THEN [acc EXCEPT
                          !.self.pendingTools =
                              MapSet(@, block.id,
                                     [name |-> block.name, input |-> block.input])]
                 ELSE acc
         IN  AssistantBlocks(Tail(blocks), next)

\* The model-change test without the sentinel exclusion
ModelChangedNoSentinel(model, current) ==
    Truthy(model) /\ model # current

\* The model-change test of parseAssistantRecord
ModelChanged(model, current) ==
    Truthy(model) /\ model # "<synthetic>" /\ model # current

\* parseAssistantRecord that writes the model change after the texts
parseAssistantRecordModelLast(self, record) ==
    IF record.message.role # "assistant" THEN [self |-> self, output |-> <<>>]
    ELSE LET message == record.message
             model == message.model
             changed == ModelChanged(model, self.currentModel)
             self1 == IF changed THEN [self EXCEPT !.currentModel = model]
                      ELSE self
             output1 == IF changed THEN formatModelChange(model) ELSE <<>>
             acc == AssistantBlocks(message.content.blocks,
                                    [self |-> self1, output |-> <<>>,
                                     hasTextContent |-> FALSE])
         IN  [self |-> [acc.self EXCEPT
                           !.stats.assistantMessages =
                               IF acc.hasTextContent THEN @ + 1 ELSE @],
              output |-> acc.output \o output1]

parseAssistantRecord(self, record) ==
    IF record.message.role # "assistant" THEN [self |-> self, output |-> <<>>]
    ELSE LET message == record.message
             model == message.model
             changed == ModelChanged(model, self.currentModel)
             self1 == IF changed THEN [self EXCEPT !.currentModel = model]
                      ELSE self
             output1 == IF changed THEN formatModelChange(model) ELSE <<>>
             usage == message.usage
             self2 ==
                 IF usage # NoObject
                 THEN [self1 EXCEPT
                          !.stats.inputTokens = @ + usage.input_tokens,
                          !.stats.outputTokens = @ + usage.output_tokens,
                          !.stats.cacheCreationTokens =
                              @ + usage.cache_creation_input_tokens,
                          !.stats.cacheReadTokens =
                              @ + usage.cache_read_input_tokens]
                 ELSE self1
             acc == AssistantBlocks(message.content.blocks,
                                    [self |-> self2, output |-> output1,
                                     hasTextContent |-> FALSE])
         IN  [self |-> [acc.self EXCEPT
                           !.stats.assistantMessages =
                               IF acc.hasTextContent THEN @ + 1 ELSE @],
              output |-> acc.output]

parseQueueOperation(self, record) ==
    IF ~NonEmpty(record.content) THEN [self |-> self, output |-> <<>>]
    ELSE [self |-> self, output |-> formatQueueOperation(record.content)]

\* parse() emitting the metadata header on every record
parseAlwaysEmitsMetadata(self, record) ==
    LET self1 ==
            IF self.metadata = NullObject
            THEN [self EXCEPT !.metadata =
                     [sessionId |-> record.sessionId, project |-> record.cwd,
                      started |-> record.timestamp, version |-> record.version,
                      gitBranch |-> IF Truthy(record.gitBranch)
                                    THEN record.gitBranch ELSE Undefined]]
            ELSE self
        output1 == formatMetadata(self1.metadata) \o <<"\n">>
        self3 == [self1 EXCEPT !.metadataEmitted = TRUE,
                               !.stats.lastTimestamp = record.timestamp]
        r == CASE record.type = "user" -> parseUserRecord(self3, record)
               [] record.type = "assistant" -> parseAssistantRecord(self3, record)
               [] record.type = "queue-operation" ->
                      parseQueueOperation(self3, record)
               [] OTHER -> [self |-> self3, output |-> <<>>]
    IN  [self |-> r.self, output |-> output1 \o r.output]

\* parse() of a line that holds a JSON record
parse(self, record) ==
    LET self1 ==
            IF self.metadata = NullObject
            THEN [self EXCEPT !.metadata =
                     [sessionId |-> record.sessionId, project |-> record.cwd,
                      started |-> record.timestamp, version |-> record.version,
                      gitBranch |-> IF Truthy(record.gitBranch)
                                    THEN record.gitBranch ELSE Undefined]]
            ELSE self
        emit == ~self1.metadataEmitted /\ self1.metadata # NullObject
        output1 == IF emit THEN formatMetadata(self1.metadata) \o <<"\n">>
                   ELSE <<>>
        self2 == IF emit THEN [self1 EXCEPT !.metadataEmitted = TRUE] ELSE self1
        self3 == [self2 EXCEPT !.stats.lastTimestamp = record.timestamp]
        r == CASE record.type = "user" -> parseUserRecord(self3, record)
               [] record.type = "assistant" -> parseAssistantRecord(self3, record)
               [] record.type = "queue-operation" ->
                      parseQueueOperation(self3, record)
               [] OTHER -> [self |-> self3, output |-> <<>>]
    IN  [self |-> r.self, output |-> output1 \o r.output]

\* What JSON.parse makes of a line: NotJson when it raises SyntaxError,
\* NullObject for the text null, otherwise the record
NotJson == [syntaxError |-> TRUE]

\* Whether parse() raises a TypeError on what JSON.parse returned:
\*   null                                    record.sessionId / record.timestamp
\*   user or assistant record, no message    message.role
\*   content absent                          for (... of message.content)
\*   text block with no text                 block.text.startsWith / text.trim
RecordThrows(record) ==
    IF record = NullObject THEN TRUE
    ELSE IF record.type = "user"
    THEN IF Truthy(record.isMeta) THEN FALSE
         ELSE IF record.message = NoObject THEN TRUE
         ELSE IF record.message.role # "user" THEN FALSE
         ELSE IF record.message.content.kind = "string" THEN FALSE
         ELSE IF record.message.content.kind = "absent" THEN TRUE
         ELSE \E i \in 1..Len(record.message.content.blocks) :
                  LET block == record.message.content.blocks[i]
                  IN  block.type = "text" /\ block.text = Undefined
    ELSE IF record.type = "assistant"
    THEN IF record.message = NoObject THEN TRUE
         ELSE IF record.message.role # "assistant" THEN FALSE
         ELSE IF record.message.content.kind = "absent" THEN TRUE
         ELSE \E i \in 1..Len(record.message.content.blocks) :
                  LET block == record.message.content.blocks[i]
                  IN  block.type = "text" /\ block.text = Undefined
    ELSE FALSE

\* The parser when a record's handler raises: parse() has run up to the
\* switch, and the records of the model raise before a block is handled
parseUntilSwitch(self, record) ==
    LET self1 ==
            IF self.metadata = NullObject
            THEN [self EXCEPT !.metadata =
                     [sessionId |-> record.sessionId, project |-> record.cwd,
                      started |-> record.timestamp, version |-> record.version,
                      gitBranch |-> IF Truthy(record.gitBranch)
                                    THEN record.gitBranch ELSE Undefined]]
            ELSE self
    IN  [self1 EXCEPT !.metadataEmitted = TRUE,
                      !.stats.lastTimestamp = record.timestamp]

\* parse(line) marking the metadata as emitted on a line it does not parse
parseLineTouchesState(self, line) ==
    IF ~NonEmpty(Trim(line.text)) \/ line.parsed = NotJson
    THEN [self |-> [self EXCEPT !.metadataEmitted = TRUE], output |-> <<>>,
          threw |-> FALSE]
    ELSE [self |-> self, output |-> <<>>, threw |-> FALSE]

\* parse(line): line.text is the text, line.parsed what JSON.parse makes of
\* the trimmed text; threw tells that the call raised instead of returning
parseLine(self, line) ==
    IF ~NonEmpty(Trim(line.text)) THEN [self |-> self, output |-> <<>>,
                                        threw |-> FALSE]
    ELSE IF line.parsed = NotJson THEN [self |-> self, output |-> <<>>,
                                        threw |-> FALSE]
    ELSE IF line.parsed = NullObject THEN [self |-> self, output |-> <<>>,
                                           threw |-> TRUE]
    ELSE IF RecordThrows(line.parsed)
    THEN [self |-> parseUntilSwitch(self, line.parsed), output |-> <<>>,
          threw |-> TRUE]
    ELSE LET r == parse(self, line.parsed)
         IN  [self |-> r.self, output |-> r.output, threw |-> FALSE]

\* finalize() emitting the summary whatever the counts
finalizeAlways(self) ==
    formatSummary(self.stats,
                  IF self.metadata # NullObject /\ Truthy(self.metadata.started)
                  THEN self.metadata.started ELSE Null)

finalize(self) ==
    IF self.stats.userMessages = 0 /\ self.stats.assistantMessages = 0
    THEN <<>>
    ELSE formatSummary(self.stats,
                       IF self.metadata # NullObject
                          /\ Truthy(self.metadata.started)
                       THEN self.metadata.started ELSE Null)


-----------------------------------------------------------------------------
(* codex/parse.ts: CodexTranscriptParser (src/README.md, from line 463) *)

CodexSelf == [pendingFunctions |-> pendingFunctions, metadata |-> metadata,
              metadataEmitted |-> metadataEmitted,
              currentModel |-> currentModel, stats |-> stats]

InitCodexStats ==
    [userMessages |-> 0, assistantMessages |-> 0, functionCalls |-> 0,
     functionErrors |-> 0, filesRead |-> {}, filesWritten |-> {},
     lastTimestamp |-> Null, model |-> Null]

\* Function-call arguments: the JSON text of payload.arguments, held as what
\* JSON.parse makes of it.  [json |-> "invalid"] does not parse;
\* command is [kind |-> "absent"], [kind |-> "string", text |-> tokens] or
\* [kind |-> "array", items |-> <<tokens, ...>>].
EmptyArgs == [json |-> "object", command |-> [kind |-> "absent"],
              path |-> Undefined]

\* Array.isArray(args.command) ? args.command.join(" ") : args.command
CommandText(command) ==
    IF command.kind = "array" THEN Join(command.items, <<" ">>)
    ELSE command.text

ReadCommands == {"cat", "less", "head", "tail", "bat"}
IsPathToken(c) == ~IsSpace(c) /\ c \notin {"\"", "'", "|", ">"}

RECURSIVE SkipSpaces(_, _)
SkipSpaces(cmd, i) ==
    IF i <= Len(cmd) /\ IsSpace(cmd[i]) THEN SkipSpaces(cmd, i + 1) ELSE i

\* Where /(?:cat|less|head|tail|bat)\s+["']?([^"'\s|>]+)/ matches from the
\* command word at i: the index of the captured token, or 0.  Words are
\* single tokens; spaces, quotes, | and > are tokens of their own.
ReadMatchAt(cmd, i) ==
    IF ~(cmd[i] \in ReadCommands /\ i < Len(cmd) /\ IsSpace(cmd[i + 1])) THEN 0
    ELSE LET j == SkipSpaces(cmd, i + 1)
             k == IF j <= Len(cmd) /\ cmd[j] \in {"\"", "'"} THEN j + 1 ELSE j
         IN  IF k <= Len(cmd) /\ IsPathToken(cmd[k]) THEN k ELSE 0

\* cmd.match(...): the set holding readMatch[1], empty when there is no match
ReadMatch(cmd) ==
    LET hits == {i \in 1..Len(cmd) : ReadMatchAt(cmd, i) > 0}
    IN  IF hits = {} THEN {}
        ELSE LET first == CHOOSE i \in hits : \A h \in hits : i <= h
             IN  {cmd[ReadMatchAt(cmd, first)]}

\* payload.output: Undefined or a token sequence; the digits after the token
\* "\"exit_code\":" are tokens of their own.
OutputIncludesExitCode(output) ==
    \E i \in 1..Len(output) : output[i] = "\"exit_code\":"

OutputIncludesExitCodeZero(output) ==
    \E i \in 1..(Len(output) - 1) :
        output[i] = "\"exit_code\":" /\ output[i + 1] = "0"

\* (output?.includes(a) && !output?.includes(b)) ?? false; an absent output
\* is held as the empty text, which gives the same false
FunctionIsError(output) ==
    OutputIncludesExitCode(output) /\ ~OutputIncludesExitCodeZero(output)

formatCodexMetadata(meta) ==
    LET lines ==
            << <<EMOJI.metadata, " ", "Session: ">> \o Interp(meta.sessionId),
               <<EMOJI.metadata, " ", "Project: ">> \o Interp(meta.project),
               <<EMOJI.metadata, " ", "Started: ">> \o Interp(meta.started),
               <<EMOJI.metadata, " ", "CLI: codex ">> \o Interp(meta.cliVersion),
               <<EMOJI.metadata, " ", "Provider: ">> \o Interp(meta.modelProvider) >>
        withBranch ==
            IF Truthy(meta.gitBranch)
            THEN Append(lines, <<EMOJI.metadata, " ", "Branch: ">>
                               \o Interp(meta.gitBranch))
            ELSE lines
    IN  Join(withBranch, <<"\n">>) \o <<"\n">>

ShellMaxLen == 200

RECURSIVE NewlinesToSpaces(_)
\* truncated.replace(/\n/g, " ")
NewlinesToSpaces(s) ==
    IF Len(s) = 0 THEN <<>>
    ELSE <<IF Head(s) = "\n" THEN " " ELSE Head(s)>> \o NewlinesToSpaces(Tail(s))

\* The cases the function names of the model reach.  A shell call without a
\* command throws inside the try and falls to the catch, like text that is
\* not JSON.
formatFunctionArgs(name, args) ==
    IF args.json = "invalid" THEN <<"argsJson.slice(0, 150)">>
    ELSE CASE name = "shell" ->
                IF args.command.kind = "absent"
                THEN <<"argsJson.slice(0, 150)">>
                ELSE LET cmd == CommandText(args.command)
                         truncated ==
                             IF Len(cmd) > ShellMaxLen
                             THEN SubSeq(cmd, 1, ShellMaxLen) \o <<"...">>
                             ELSE cmd
                     IN  NewlinesToSpaces(truncated)
           [] name \in {"read_file", "write_file"} ->
                <<"file=\"">> \o Interp(args.path) \o <<"\"">>
           [] OTHER -> <<"JSON.stringify(args).slice(0, 150)">>

formatFunctionCall(func, isError) ==
    LET emoji == IF isError THEN EMOJI.toolFailure ELSE EMOJI.toolSuccess
        params == formatFunctionArgs(func.name, func.arguments)
    IN  <<emoji, " ", func.name, ": ">> \o params \o <<"\n">>

formatCodexSummary(st, startTime) ==
    LET head == << <<>>, <<EMOJI.metadata, " ", "--- Summary ---">> >>
        duration ==
            IF Truthy(startTime) /\ Truthy(st.lastTimestamp)
            THEN formatDuration(startTime, st.lastTimestamp)
            ELSE NoDuration
        durationLines ==
            IF duration # NoDuration
            THEN << <<EMOJI.metadata, " ", "Duration: ">> \o duration >>
            ELSE <<>>
        modelLines ==
            IF Truthy(st.model)
            THEN << <<EMOJI.metadata, " ", "Model: ", st.model>> >>
            ELSE <<>>
        counts ==
            << <<EMOJI.metadata, " ", "Messages: ", ToString(st.userMessages),
                 " user, ", ToString(st.assistantMessages), " assistant">>,
               <<EMOJI.metadata, " ", "Function calls: ",
                 ToString(st.functionCalls), " total, ",
                 ToString(st.functionErrors), " failed">> >>
        filesRead == Cardinality(st.filesRead)
        filesWritten == Cardinality(st.filesWritten)
        parts ==
            (IF filesRead > 0 THEN << <<ToString(filesRead), " read">> >> ELSE <<>>)
            \o (IF filesWritten > 0
                THEN << <<ToString(filesWritten), " written">> >> ELSE <<>>)
        fileLines ==
            IF filesRead > 0 \/ filesWritten > 0
            THEN << <<EMOJI.metadata, " ", "Files: ">> \o Join(parts, <<", ">>) >>
            ELSE <<>>
    IN  Join(head \o durationLines \o modelLines \o counts \o fileLines,
             <<"\n">>) \o <<"\n">>


parseSessionMeta(self, payload) ==
    LET meta == [sessionId |-> payload.id, project |-> payload.cwd,
                 started |-> payload.timestamp,
                 cliVersion |-> payload.cli_version,
                 modelProvider |-> payload.model_provider,
                 gitBranch |-> IF payload.git = NoObject THEN Undefined
                               ELSE payload.git.branch]
    IN  [self |-> [self EXCEPT !.metadata = meta, !.metadataEmitted = TRUE],
         output |-> formatCodexMetadata(meta) \o <<"\n">>]

RECURSIVE OutputTextBlocks(_, _)
\* The loop of parseMessage over payload.content for an assistant message
OutputTextBlocks(blocks, acc) ==
    IF Len(blocks) = 0 THEN acc
    ELSE LET block == Head(blocks)
             next ==
                 IF block.type = "output_text"
                 THEN [acc EXCEPT
                          !.output = @ \o formatAssistantText(block.text),
                          !.self.stats.assistantMessages = @ + 1]
                 ELSE acc
         IN  OutputTextBlocks(Tail(blocks), next)

RECURSIVE InputTextBlocks(_, _)
\* A loop over payload.content that takes the input_text blocks of a user
\* message for user turns
InputTextBlocks(blocks, acc) ==
    IF Len(blocks) = 0 THEN acc
    ELSE LET block == Head(blocks)
             next ==
                 IF block.type = "input_text"
                 THEN [acc EXCEPT
                          !.output = @ \o formatUserMessage(block.text),
                          !.self.stats.userMessages = @ + 1]
                 ELSE acc
         IN  InputTextBlocks(Tail(blocks), next)

\* parseMessage that does not skip the user-role messages
parseMessageKeepsUserRole(self, payload) ==
    IF payload.content.kind = "absent" THEN [self |-> self, output |-> <<>>]
    ELSE IF payload.role = "user"
    THEN InputTextBlocks(payload.content.blocks,
                         [self |-> self, output |-> <<>>])
    ELSE IF payload.role = "assistant"
    THEN OutputTextBlocks(payload.content.blocks,
                          [self |-> self, output |-> <<>>])
    ELSE [self |-> self, output |-> <<>>]

\* payload.content: [kind |-> "absent"] or [kind |-> "array", blocks |-> ...]
parseMessage(self, payload) ==
    IF payload.content.kind = "absent" THEN [self |-> self, output |-> <<>>]
    ELSE IF payload.role = "user" THEN [self |-> self, output |-> <<>>]
    ELSE IF payload.role = "assistant"
    THEN OutputTextBlocks(payload.content.blocks,
                          [self |-> self, output |-> <<>>])
    ELSE [self |-> self, output |-> <<>>]

parseFunctionCall(self, payload) ==
    IF ~Truthy(payload.name) \/ ~Truthy(payload.call_id)
    THEN [self |-> self, output |-> <<>>]
    ELSE [self |-> [self EXCEPT
                      !.pendingFunctions =
                          MapSet(@, payload.call_id,
                                 [name |-> payload.name,
                                  arguments |-> IF payload.arguments = NoObject
                                                THEN EmptyArgs
                                                ELSE payload.arguments])],
          output |-> <<>>]

\* The paths the try block of parseFunctionCallOutput adds to filesRead
ShellReads(pending) ==
    IF pending.arguments.json = "invalid" THEN {}
    ELSE IF pending.name = "shell" /\ pending.arguments.command.kind # "absent"
    THEN ReadMatch(CommandText(pending.arguments.command))
    ELSE {}

\* parseFunctionCallOutput without the delete: the entry stays in the store
parseFunctionCallOutputKeepsEntry(self, payload) ==
    IF ~Truthy(payload.call_id) THEN [self |-> self, output |-> <<>>]
    ELSE IF ~MapHas(self.pendingFunctions, payload.call_id)
    THEN [self |-> self, output |-> <<>>]
    ELSE LET pending == self.pendingFunctions[payload.call_id]
             isError == FunctionIsError(payload.output)
         IN  [self |-> [self EXCEPT
                           !.stats.functionCalls = @ + 1,
                           !.stats.functionErrors =
                               IF isError THEN @ + 1 ELSE @,
                           !.stats.filesRead = @ \cup ShellReads(pending)],
              output |-> formatFunctionCall(pending, isError)]

\* parseFunctionCallOutput counting and rendering a result with no pending entry
parseFunctionCallOutputUnknownCounts(self, payload) ==
    IF ~Truthy(payload.call_id) THEN [self |-> self, output |-> <<>>]
    ELSE LET pending == IF MapHas(self.pendingFunctions, payload.call_id)
                        THEN self.pendingFunctions[payload.call_id]
                        ELSE [name |-> "unknown", arguments |-> EmptyArgs]
             isError == FunctionIsError(payload.output)
         IN  [self |-> [self EXCEPT
                           !.pendingFunctions = MapDelete(@, payload.call_id),
                           !.stats.functionCalls = @ + 1,
                           !.stats.functionErrors =
                               IF isError THEN @ + 1 ELSE @,
                           !.stats.filesRead = @ \cup ShellReads(pending)],
              output |-> formatFunctionCall(pending, isError)]

\* parseFunctionCallOutput that writes the failure tag and does not count
\* the failure
parseFunctionCallOutputErrorUncounted(self, payload) ==
    IF ~Truthy(payload.call_id) THEN [self |-> self, output |-> <<>>]
    ELSE IF ~MapHas(self.pendingFunctions, payload.call_id)
    THEN [self |-> self, output |-> <<>>]
    ELSE LET pending == self.pendingFunctions[payload.call_id]
             isError == FunctionIsError(payload.output)
         IN  [self |-> [self EXCEPT
                           !.pendingFunctions = MapDelete(@, payload.call_id),
                           !.stats.functionCalls = @ + 1,
                           !.stats.filesRead = @ \cup ShellReads(pending)],
              output |-> formatFunctionCall(pending, isError)]

parseFunctionCallOutput(self, payload) ==
    IF ~Truthy(payload.call_id) THEN [self |-> self, output |-> <<>>]
    ELSE IF ~MapHas(self.pendingFunctions, payload.call_id)
    THEN [self |-> self, output |-> <<>>]
    ELSE LET pending == self.pendingFunctions[payload.call_id]
             isError == FunctionIsError(payload.output)
         IN  [self |-> [self EXCEPT
                           !.pendingFunctions = MapDelete(@, payload.call_id),
                           !.stats.functionCalls = @ + 1,
                           !.stats.functionErrors =
                               IF isError THEN @ + 1 ELSE @,
                           !.stats.filesRead = @ \cup ShellReads(pending)],
              output |-> formatFunctionCall(pending, isError)]

parseResponseItem(self, payload) ==
    CASE payload.type = "message" -> parseMessage(self, payload)
      [] payload.type = "function_call" -> parseFunctionCall(self, payload)
      [] payload.type = "function_call_output" ->
             parseFunctionCallOutput(self, payload)
      [] OTHER -> [self |-> self, output |-> <<>>]

RECURSIVE StripContext(_)
\* text.replace(/<context ref="[^"]*">[\s\S]*?<\/context>/g, ""): a context
\* block is the single token "<context>"
StripContext(s) ==
    IF Len(s) = 0 THEN <<>>
    ELSE (IF Head(s) = "<context>" THEN <<>> ELSE <<Head(s)>>)
         \o StripContext(Tail(s))

RECURSIVE StripFileRefs(_)
\* text.replace(/\[@[^\]]+\]\([^)]+\)\s*/g, ""): a file reference is the
\* single token "[@file](url)"; the white space after it goes with it
StripFileRefs(s) ==
    IF Len(s) = 0 THEN <<>>
    ELSE IF Head(s) = "[@file](url)" THEN StripFileRefs(TrimStart(Tail(s)))
    ELSE <<Head(s)>> \o StripFileRefs(Tail(s))

\* payload.message: a token sequence, empty when absent (both are falsy)
parseEventMsg(self, payload) ==
    IF payload.type = "user_message" /\ NonEmpty(payload.message)
    THEN LET text == Trim(StripFileRefs(StripContext(payload.message)))
         IN  IF NonEmpty(text)
             THEN [self |-> [self EXCEPT !.stats.userMessages = @ + 1],
                   output |-> formatUserMessage(text)]
             ELSE [self |-> self, output |-> <<>>]
    ELSE [self |-> self, output |-> <<>>]

parseTurnContext(self, payload) ==
    IF Truthy(payload.model) /\ payload.model # self.currentModel
    THEN [self |-> [self EXCEPT !.currentModel = payload.model,
                                !.stats.model = payload.model],
          output |-> formatModelChange(payload.model)]
    ELSE [self |-> self, output |-> <<>>]

\* CodexTranscriptParser.parse() of a line that holds a JSON record
codexParse(self, record) ==
    LET self1 == [self EXCEPT !.stats.lastTimestamp = record.timestamp]
    IN  CASE record.type = "session_meta" ->
                 parseSessionMeta(self1, record.payload)
          [] record.type = "response_item" ->
                 parseResponseItem(self1, record.payload)
          [] record.type = "event_msg" -> parseEventMsg(self1, record.payload)
          [] record.type = "turn_context" ->
                 parseTurnContext(self1, record.payload)
          [] OTHER -> [self |-> self1, output |-> <<>>]

\* Whether CodexTranscriptParser.parse() raises a TypeError on what
\* JSON.parse returned: on null at record.timestamp, on a record of a
\* handled type with no payload at payload.id / payload.type / payload.model
CodexRecordThrows(record) ==
    IF record = NullObject THEN TRUE
    ELSE /\ record.type \in {"session_meta", "response_item", "event_msg",
                             "turn_context"}
         /\ record.payload = NoObject

\* CodexTranscriptParser.parse(line)
codexParseLine(self, line) ==
    IF ~NonEmpty(Trim(line.text)) THEN [self |-> self, output |-> <<>>,
                                        threw |-> FALSE]
    ELSE IF line.parsed = NotJson THEN [self |-> self, output |-> <<>>,
                                        threw |-> FALSE]
    ELSE IF line.parsed = NullObject THEN [self |-> self, output |-> <<>>,
                                           threw |-> TRUE]
    ELSE IF CodexRecordThrows(line.parsed)
    THEN [self |-> [self EXCEPT !.stats.lastTimestamp = line.parsed.timestamp],
          output |-> <<>>, threw |-> TRUE]
    ELSE LET r == codexParse(self, line.parsed)
         IN  [self |-> r.self, output |-> r.output, threw |-> FALSE]

\* finalize() emitting the summary whatever the counts
codexFinalizeAlways(self) ==
    formatCodexSummary(self.stats,
                       IF self.metadata # NullObject
                          /\ Truthy(self.metadata.started)
                       THEN self.metadata.started ELSE Null)

codexFinalize(self) ==
    IF self.stats.userMessages = 0 /\ self.stats.assistantMessages = 0
    THEN <<>>
    ELSE formatCodexSummary(self.stats,
                            IF self.metadata # NullObject
                               /\ Truthy(self.metadata.started)
                            THEN self.metadata.started ELSE Null)


-----------------------------------------------------------------------------
(* opencode/parse.ts: loadSession and formatSession *)

RECURSIVE InsertByCreated(_, _)
\* Insertion after the elements created no later: the sort is stable
InsertByCreated(sorted, msg) ==
    IF Len(sorted) = 0 THEN <<msg>>
    ELSE IF msg.time.created < Head(sorted).time.created
    THEN <<msg>> \o sorted
    ELSE <<Head(sorted)>> \o InsertByCreated(Tail(sorted), msg)

RECURSIVE SortByCreated(_)
\* messages.sort((a, b) => a.time.created - b.time.created)
SortByCreated(messages) ==
    IF Len(messages) = 0 THEN <<>>
    ELSE InsertByCreated(SortByCreated(SubSeq(messages, 1, Len(messages) - 1)),
                         messages[Len(messages)])

\* A file whose content Bun.file(...).json() cannot give: json() rejects and
\* the enclosing try block is left
Unreadable == [unreadable |-> TRUE]
AnyUnreadable(files) == \E i \in DOMAIN files : files[i] = Unreadable

\* findSessionFile(): the content of the session's file, NullObject when no
\* file has the session's name or its content cannot be read
findSessionFile(file) ==
    IF file = NullObject \/ file = Unreadable THEN NullObject ELSE file

\* loadMessages() without the sort
loadMessagesUnsorted(files) ==
    IF AnyUnreadable(files) THEN <<>> ELSE files

\* loadMessages(): the message files in readdir order, sorted by creation;
\* none when reading one of them throws
loadMessages(files) ==
    IF AnyUnreadable(files) THEN <<>> ELSE SortByCreated(files)

\* loadParts(): the part files of one message in readdir order; none when
\* reading one of them throws
loadParts(files) ==
    IF AnyUnreadable(files) THEN <<>> ELSE files

\* loadSession() on a storage directory
\*   storage.session  : the session file's content, NullObject when not found
\*   storage.messages : the message files' contents in readdir order
\*   storage.parts    : message id -> the part files' contents in readdir order
loadSession(storage) ==
    LET session == findSessionFile(storage.session)
    IN  IF session = NullObject THEN NullObject
        ELSE LET messages == loadMessages(storage.messages)
                 msgParts == [id \in DOMAIN storage.parts |->
                                 loadParts(storage.parts[id])]
             IN  IF Len(messages) = 0 THEN NullObject
                 ELSE [session |-> session, messages |-> messages,
                       parts |-> [id \in {m \in DOMAIN msgParts :
                                             /\ \E i \in 1..Len(messages) :
                                                    messages[i].id = m
                                             /\ Len(msgParts[m]) > 0}
                                     |-> msgParts[id]]]

InitOpenCodeStats ==
    [userMessages |-> 0, assistantMessages |-> 0, toolCalls |-> 0,
     toolErrors |-> 0, inputTokens |-> 0, outputTokens |-> 0, totalCost |-> 0,
     filesRead |-> {}, filesWritten |-> {}, lastTimestamp |-> 0]

\* new Date(ms).toISOString()
ToISOString(ms) == <<"ISO(", ToString(ms), ")">>

DescMaxLen == 100

\* part.state.metadata?.exit: the number as "0", "1", ..., Null when the file
\* holds null, Undefined when the file has no such field
ToolIsError(state) ==
    LET exit == IF state.metadata = NoObject THEN Undefined
                ELSE state.metadata.exit
    IN  exit # "0" /\ exit # Undefined

\* One tool part with a state, in an assistant message
ToolPart(acc, part) ==
    LET isError == ToolIsError(part.state)
        emoji == IF isError THEN EMOJI.toolFailure ELSE EMOJI.toolSuccess
        toolName == IF Truthy(part.tool) THEN part.tool ELSE "unknown"
        desc == IF NonEmpty(part.state.title) THEN part.state.title
                ELSE IF part.state.metadata # NoObject
                        /\ NonEmpty(part.state.metadata.description)
                THEN part.state.metadata.description
                ELSE <<>>
        truncDesc == IF Len(desc) > DescMaxLen
                     THEN SubSeq(desc, 1, DescMaxLen) \o <<"...">> ELSE desc
        path == IF part.state.input = NoObject THEN Undefined
                ELSE part.state.input.filePath
        st1 == [acc.stats EXCEPT !.toolCalls = @ + 1,
                                 !.toolErrors = IF isError THEN @ + 1 ELSE @]
        st2 == IF toolName = "read" /\ Truthy(path)
               THEN [st1 EXCEPT !.filesRead = @ \cup {path}]
               ELSE IF toolName = "write" /\ Truthy(path)
               THEN [st1 EXCEPT !.filesWritten = @ \cup {path}]
               ELSE st1
    IN  [acc EXCEPT !.stats = st2,
                    !.output = @ \o <<emoji, " ", toolName, ": ">> \o truncDesc
                                 \o <<"\n">>]

RECURSIVE UserPartsKeepSynthetic(_, _)
\* The loop over the text parts of a user message without the test of
\* part.synthetic
UserPartsKeepSynthetic(parts, acc) ==
    IF Len(parts) = 0 THEN acc
    ELSE LET part == Head(parts)
             skip == \/ ~(part.type = "text" /\ NonEmpty(part.text))
                     \/ StartsWith(part.text, "<file>")
                     \/ StartsWith(part.text, "Called the")
             text == Trim(part.text)
             next ==
                 IF ~skip /\ NonEmpty(text)
                 THEN [acc EXCEPT
                          !.output = @ \o <<EMOJI.user, " ">> \o text \o <<"\n">>,
                          !.stats.userMessages = @ + 1]
                 ELSE acc
         IN  UserPartsKeepSynthetic(Tail(parts), next)

RECURSIVE UserParts(_, _)
\* The loop over the text parts of a user message
UserParts(parts, acc) ==
    IF Len(parts) = 0 THEN acc
    ELSE LET part == Head(parts)
             skip == \/ ~(part.type = "text" /\ NonEmpty(part.text))
                     \/ Truthy(part.synthetic)
                     \/ StartsWith(part.text, "<file>")
                     \/ StartsWith(part.text, "Called the")
             text == Trim(part.text)
             next ==
                 IF ~skip /\ NonEmpty(text)
                 THEN [acc EXCEPT
                          !.output = @ \o <<EMOJI.user, " ">> \o text \o <<"\n">>,
                          !.stats.userMessages = @ + 1]
                 ELSE acc
         IN  UserParts(Tail(parts), next)

RECURSIVE AssistantParts(_, _)
\* The loop over the parts of an assistant message
AssistantParts(parts, acc) ==
    IF Len(parts) = 0 THEN acc
    ELSE LET part == Head(parts)
             next ==
                 IF part.type = "text" /\ NonEmpty(part.text)
                 THEN [acc EXCEPT
                          !.output = @ \o <<EMOJI.assistant, " ">>
                                       \o Trim(part.text) \o <<"\n">>,
                          !.stats.assistantMessages = @ + 1]
                 ELSE IF part.type = "tool" /\ part.state # NoObject
                 THEN ToolPart(acc, part)
                 ELSE acc
         IN  AssistantParts(Tail(parts), next)

\* One turn of the loop over messages; an absent time.completed, tokens
\* count or cost is held as 0, which the code's || and if treat alike
FormatMessage(acc, msg, parts) ==
    LET acc1 == [acc EXCEPT
                    !.stats.lastTimestamp =
                        IF msg.time.completed # 0 THEN msg.time.completed
                        ELSE msg.time.created,
                    !.stats.inputTokens = @ + msg.tokens.input,
                    !.stats.outputTokens = @ + msg.tokens.output,
                    !.stats.totalCost = @ + msg.cost]
        changed == Truthy(msg.modelID) /\ msg.modelID # acc.currentModel
        acc2 == IF changed
                THEN [acc1 EXCEPT
                         !.currentModel = msg.modelID,
                         !.output = @ \o <<EMOJI.metadata, " ", "Model: ",
                                           msg.modelID, "\n">>]
                ELSE acc1
        msgParts == IF msg.id \in DOMAIN parts THEN parts[msg.id] ELSE <<>>
    IN  IF msg.role = "user" THEN UserParts(msgParts, acc2)
        ELSE IF msg.role = "assistant" THEN AssistantParts(msgParts, acc2)
        ELSE acc2

RECURSIVE FormatMessages(_, _, _)
FormatMessages(messages, parts, acc) ==
    IF Len(messages) = 0 THEN acc
    ELSE FormatMessages(Tail(messages), parts,
                        FormatMessage(acc, Head(messages), parts))

\* formatDuration(ms) of opencode/parse.ts
formatDurationMs(ms) ==
    LET seconds == ms \div MsPerSecond
        minutes == seconds \div SecondsPerMinute
        hours == minutes \div MinutesPerHour
    IN  IF ms < 0 THEN NoDuration
        ELSE IF hours > 0
             THEN <<ToString(hours), "h ", ToString(minutes % MinutesPerHour), "m">>
        ELSE IF minutes > 0 THEN <<ToString(minutes), "m">>
        ELSE <<ToString(seconds), "s">>

\* totalCost.toFixed(4), the cost held in ten-thousandths of a dollar
CostUnit == 10000
ToFixed4(cost) ==
    LET frac == cost % CostUnit
        pad == IF frac < 10 THEN <<"000">> ELSE IF frac < 100 THEN <<"00">>
               ELSE IF frac < 1000 THEN <<"0">> ELSE <<>>
    IN  <<ToString(cost \div CostUnit), ".">> \o pad \o <<ToString(frac)>>

\* formatSummary of opencode/parse.ts
formatOpenCodeSummary(st, startTime) ==
    LET head == << <<>>, <<EMOJI.metadata, " ", "--- Summary ---">> >>
        duration == IF st.lastTimestamp # 0
                    THEN formatDurationMs(st.lastTimestamp - startTime)
                    ELSE NoDuration
        durationLines ==
            IF duration # NoDuration
            THEN << <<EMOJI.metadata, " ", "Duration: ">> \o duration >>
            ELSE <<>>
        counts ==
            << <<EMOJI.metadata, " ", "Messages: ", ToString(st.userMessages),
                 " user, ", ToString(st.assistantMessages), " assistant">>,
               <<EMOJI.metadata, " ", "Tool calls: ", ToString(st.toolCalls),
                 " total, ", ToString(st.toolErrors), " failed">> >>
        tokenLines ==
            IF st.inputTokens > 0 \/ st.outputTokens > 0
            THEN << <<EMOJI.metadata, " ", "Tokens: ">>
                    \o formatTokens(st.inputTokens) \o <<" in, ">>
                    \o formatTokens(st.outputTokens) \o <<" out">> >>
            ELSE <<>>
        costLines ==
            IF st.totalCost > 0
            THEN << <<EMOJI.metadata, " ", "Cost: $">> \o ToFixed4(st.totalCost) >>
            ELSE <<>>
        filesRead == Cardinality(st.filesRead)
        filesWritten == Cardinality(st.filesWritten)
        parts ==
            (IF filesRead > 0 THEN << <<ToString(filesRead), " read">> >> ELSE <<>>)
            \o (IF filesWritten > 0
                THEN << <<ToString(filesWritten), " written">> >> ELSE <<>>)
        fileLines ==
            IF filesRead > 0 \/ filesWritten > 0
            THEN << <<EMOJI.metadata, " ", "Files: ">> \o Join(parts, <<", ">>) >>
            ELSE <<>>
    IN  Join(head \o durationLines \o counts \o tokenLines \o costLines
             \o fileLines, <<"\n">>) \o <<"\n">>

\* The header formatSession writes
SessionHeader(session) ==
    <<EMOJI.metadata, " ", "Session: ", session.id, "\n">>
    \o <<EMOJI.metadata, " ", "Project: ", session.directory, "\n">>
    \o <<EMOJI.metadata, " ", "Started: ">> \o ToISOString(session.time.created)
    \o <<"\n">>
    \o (IF NonEmpty(session.title)
        THEN <<EMOJI.metadata, " ", "Title: ">> \o session.title \o <<"\n">>
        ELSE <<>>)
    \o <<"\n">>

\* formatSession(): the text and, for the properties, the final stats
formatSessionRun(d) ==
    LET acc == FormatMessages(d.messages, d.parts,
                              [stats |-> InitOpenCodeStats,
                               output |-> SessionHeader(d.session),
                               currentModel |-> Null])
    IN  [stats |-> acc.stats,
         output |-> acc.output
                    \o formatOpenCodeSummary(acc.stats, d.session.time.created)]

formatSession(d) == formatSessionRun(d).output

-----------------------------------------------------------------------------
(* What was written and what was read: the history variables *)

RECURSIVE Lines(_)
\* The lines of an output text, each without its "\n"
Lines(s) ==
    IF Len(s) = 0 THEN <<>>
    ELSE LET nl == {i \in 1..Len(s) : s[i] = "\n"}
         IN  IF nl = {} THEN <<s>>
             ELSE LET i == CHOOSE k \in nl : \A j \in nl : k <= j
                  IN  <<SubSeq(s, 1, i - 1)>> \o Lines(SubSeq(s, i + 1, Len(s)))

LineKinds == {"session", "metafield", "model", "summary", "user", "assistant",
              "toolSuccess", "toolFailure", "queue", "blank", "untagged"}

\* A line's kind, by its tag and, under the metadata tag, its label
LineKind(line) ==
    IF Len(line) = 0 THEN "blank"
    ELSE IF Len(line) < 2 \/ line[2] # " " THEN "untagged"
    ELSE CASE line[1] = EMOJI.user -> "user"
           [] line[1] = EMOJI.assistant -> "assistant"
           [] line[1] = EMOJI.toolSuccess -> "toolSuccess"
           [] line[1] = EMOJI.toolFailure -> "toolFailure"
           [] line[1] = EMOJI.queue -> "queue"
           [] line[1] = EMOJI.metadata ->
                  IF Len(line) < 3 THEN "metafield"
                  ELSE CASE line[3] = "Session: " -> "session"
                         [] line[3] = "Model: " -> "model"
                         [] line[3] = "--- Summary ---" -> "summary"
                         [] OTHER -> "metafield"
           [] OTHER -> "untagged"

CountKind(text, kind) ==
    LET ls == Lines(text)
    IN  Cardinality({i \in 1..Len(ls) : LineKind(ls[i]) = kind})

\* The kinds of the lines of a text
KindsOf(text) ==
    LET ls == Lines(text)
    IN  [i \in 1..Len(ls) |-> LineKind(ls[i])]

NoneEmitted == [k \in LineKinds |-> 0]
Emit(counts, text) ==
    LET ls == Lines(text)
        kinds == [i \in 1..Len(ls) |-> LineKind(ls[i])]
    IN  [k \in LineKinds |->
            counts[k] + Cardinality({i \in 1..Len(ls) : kinds[i] = k})]

RECURSIVE Correlate(_, _)
\* Requests and results in stream order.  A request opens its call ID.  A
\* result for an open ID answers it and closes the ID; a result for a closed
\* ID is a repeat; a result for an ID never requested is a stray.
\* An answering result that is flagged an error is a failed one.
\* events: << [kind |-> "request", id |-> ...],
\*            [kind |-> "result", id |-> ..., error |-> BOOLEAN], ... >>
Correlate(events, acc) ==
    IF Len(events) = 0 THEN acc
    ELSE LET e == Head(events)
             next ==
                 IF e.kind = "request"
                 THEN [acc EXCEPT !.open = @ \cup {e.id},
                                  !.closed = @ \ {e.id}]
                 ELSE IF e.id \in acc.open
                 THEN [acc EXCEPT !.open = @ \ {e.id},
                                  !.closed = @ \cup {e.id},
                                  !.answered = @ + 1,
                                  !.failed = IF e.error THEN @ + 1 ELSE @]
                 ELSE IF e.id \in acc.closed
                 THEN [acc EXCEPT !.repeats = @ + 1]
                 ELSE [acc EXCEPT !.stray = @ + 1]
         IN  Correlate(Tail(events), next)

Correlation == [open |-> open, closed |-> closed, answered |-> answered,
                stray |-> stray, repeats |-> repeats, failed |-> failed]

\* The requests and results a source-A record carries
RecordEvents(record) ==
    LET IsUse(b) == b.type = "tool_use"
        IsResult(b) == b.type = "tool_result"
    IN  IF record.type = "assistant"
        THEN LET uses == SelectSeq(record.message.content.blocks, IsUse)
             IN  [i \in 1..Len(uses) |-> [kind |-> "request", id |-> uses[i].id]]
        ELSE IF record.type = "user" /\ record.message.content.kind = "array"
        THEN LET rs == SelectSeq(record.message.content.blocks, IsResult)
             IN  [i \in 1..Len(rs) |->
                     [kind |-> "result", id |-> rs[i].tool_use_id,
                      error |-> Truthy(rs[i].is_error)]]
        ELSE <<>>

\* The user and assistant texts a source-A record carries, blank ones
\* included; meta records and texts under the control marker are not turns
RecordTexts(record) ==
    LET IsText(b) == b.type = "text"
        IsOpenText(b) == b.type = "text" /\ ~StartsWith(b.text, "<")
    IN  IF record.type = "assistant" /\ record.message.role = "assistant"
        THEN Len(SelectSeq(record.message.content.blocks, IsText))
        ELSE IF record.type = "user" /\ record.message.role = "user"
                /\ ~Truthy(record.isMeta)
        THEN IF record.message.content.kind = "string"
             THEN IF StartsWith(record.message.content.text, "<") THEN 0 ELSE 1
             ELSE Len(SelectSeq(record.message.content.blocks, IsOpenText))
        ELSE 0

\* The model identifier a source-A record shows: one entry for an assistant
\* record whose message has the assistant role, Undefined when it has none
RecordModels(record) ==
    IF record.type = "assistant" /\ record.message.role = "assistant"
    THEN <<record.message.model>>
    ELSE <<>>

RECURSIVE ModelChanges(_, _)
\* The identifiers of modelsSeen that are a change: present, not the sentinel
\* "<synthetic>", and different from the last identifier that was a change
ModelChanges(models, last) ==
    IF Len(models) = 0 THEN <<>>
    ELSE LET m == Head(models)
         IN  IF m \notin {Undefined, Null, "", "<synthetic>", last}
             THEN <<m>> \o ModelChanges(Tail(models), m)
             ELSE ModelChanges(Tail(models), last)

\* The requests and results a source-B record carries
CodexRecordEvents(record) ==
    IF record.type = "response_item"
       /\ record.payload.type = "function_call"
       /\ Truthy(record.payload.name) /\ Truthy(record.payload.call_id)
    THEN << [kind |-> "request", id |-> record.payload.call_id] >>
    ELSE IF record.type = "response_item"
            /\ record.payload.type = "function_call_output"
            /\ Truthy(record.payload.call_id)
    THEN << [kind |-> "result", id |-> record.payload.call_id,
             error |-> FunctionIsError(record.payload.output)] >>
    ELSE <<>>

\* The model identifier a source-B record shows: that of a turn context
CodexRecordModels(record) ==
    IF record.type = "turn_context" THEN <<record.payload.model>> ELSE <<>>

\* The user and assistant texts a source-B record carries
CodexRecordTexts(record) ==
    LET IsOutputText(b) == b.type = "output_text"
    IN  IF record.type = "response_item" /\ record.payload.type = "message"
           /\ record.payload.role = "assistant"
           /\ record.payload.content.kind = "array"
        THEN Len(SelectSeq(record.payload.content.blocks, IsOutputText))
        ELSE IF record.type = "event_msg"
                /\ record.payload.type = "user_message"
                /\ NonEmpty(Trim(StripFileRefs(StripContext(record.payload.message))))
        THEN 1
        ELSE 0


-----------------------------------------------------------------------------
(* The input lines of the model *)

CallIds == {"call_1", "call_2"}

\* What every record of source A carries beside its type and message
Envelope1 ==
    [sessionId |-> "s1", cwd |-> "/proj", timestamp |-> "2025-01-01T00:00:45Z",
     version |-> "1.0.0", gitBranch |-> "main"]
Envelope2 ==
    [sessionId |-> "s2", cwd |-> "/other", timestamp |-> "2025-01-01T00:00:00Z",
     version |-> "2.0.0", gitBranch |-> Undefined]

Record(env, type, isMeta, message, content) ==
    [type |-> type, sessionId |-> env.sessionId, cwd |-> env.cwd,
     timestamp |-> env.timestamp, version |-> env.version,
     gitBranch |-> env.gitBranch, isMeta |-> isMeta, message |-> message,
     content |-> content]

StringContent(text) == [kind |-> "string", text |-> text]
ArrayContent(blocks) == [kind |-> "array", blocks |-> blocks]
TextBlock(text) == [type |-> "text", text |-> text]
ThinkingBlock == [type |-> "thinking"]
ToolUseBlock(id, tool) ==
    [type |-> "tool_use", id |-> id, name |-> tool.name, input |-> tool.input]
ToolResultBlock(id, isError) ==
    [type |-> "tool_result", tool_use_id |-> id, is_error |-> isError]
ToolInput(filePath, pattern) ==
    [file_path |-> filePath, pattern |-> pattern, path |-> Undefined,
     command |-> <<>>]
NoMessage == [role |-> Undefined]
UserMessage(content) == [role |-> "user", content |-> content]
AssistantMessage(model, usage, blocks) ==
    [role |-> "assistant", model |-> model, usage |-> usage,
     content |-> ArrayContent(blocks)]

UserTexts == { <<"a">>, <<" ">>, <<"<", "a">>, <<" ", "b", " ">>,
               <<"a", "\n", "b">> }

ReadA == [name |-> "Read", input |-> ToolInput("/a", Undefined)]
ReadB == [name |-> "Read", input |-> ToolInput("/b", Undefined)]
WriteA == [name |-> "Write", input |-> ToolInput("/a", Undefined)]
EditA == [name |-> "Edit", input |-> ToolInput("/a", Undefined)]
ReadNoPath == [name |-> "Read", input |-> ToolInput(Undefined, Undefined)]
GlobConfig == [name |-> "Glob", input |-> ToolInput(Undefined, "**/config.*")]
GrepA == [name |-> "Grep", input |-> ToolInput("/a", Undefined)]

UserContents ==
    {StringContent(t) : t \in UserTexts}
    \cup { ArrayContent(<<>>),
           ArrayContent(<<TextBlock(<<" ">>)>>),
           ArrayContent(<<TextBlock(<<"<", "a">>)>>),
           ArrayContent(<<TextBlock(<<"a">>), TextBlock(<<"b">>)>>),
           ArrayContent(<<ToolResultBlock("call_1", Undefined)>>),
           ArrayContent(<<ToolResultBlock("call_1", JsFalse)>>),
           ArrayContent(<<ToolResultBlock("call_1", JsTrue)>>),
           ArrayContent(<<ToolResultBlock("call_2", Undefined)>>),
           ArrayContent(<<ToolResultBlock("call_1", Undefined),
                          ToolResultBlock("call_1", Undefined)>>),
           ArrayContent(<<ToolResultBlock("call_2", JsTrue),
                          ToolResultBlock("call_1", Undefined)>>),
           ArrayContent(<<ToolResultBlock("call_1", Undefined),
                          ToolResultBlock("call_2", JsFalse)>>),
           ArrayContent(<<TextBlock(<<"a">>),
                          ToolResultBlock("call_1", Undefined)>>) }

\* Meta records are injected text; a record whose role is not "user" is a
\* malformed user record.  A few records come from a second envelope.
UserRecords ==
    {Record(Envelope1, "user", Undefined, UserMessage(c), <<>>) :
        c \in UserContents}
    \cup { Record(Envelope1, "user", JsTrue,
                  UserMessage(StringContent(<<"a">>)), <<>>),
           Record(Envelope1, "user", Undefined,
                  [role |-> "assistant",
                   content |-> ArrayContent(<<TextBlock(<<"a">>)>>)], <<>>),
           Record(Envelope2, "user", Undefined,
                  UserMessage(StringContent(<<"a">>)), <<>>) }

Usage == [input_tokens |-> 600, output_tokens |-> 500,
          cache_creation_input_tokens |-> 0, cache_read_input_tokens |-> 700]

AssistantMessages ==
    {AssistantMessage(Undefined, NoObject, bs) :
        bs \in { <<>>, <<TextBlock(<<" ">>)>>, <<ThinkingBlock>>,
                 <<TextBlock(<<"a">>), TextBlock(<<"b">>)>>,
                 <<TextBlock(<<"a">>), ToolUseBlock("call_1", ReadA)>>,
                 <<ToolUseBlock("call_1", ReadA), ToolUseBlock("call_2", EditA)>>,
                 <<ToolUseBlock("call_1", ReadA)>>,
                 <<ToolUseBlock("call_1", ReadB)>>,
                 <<ToolUseBlock("call_1", WriteA)>>,
                 <<ToolUseBlock("call_1", EditA)>>,
                 <<ToolUseBlock("call_1", ReadNoPath)>>,
                 <<ToolUseBlock("call_1", GlobConfig)>>,
                 <<ToolUseBlock("call_1", GrepA)>>,
                 <<ToolUseBlock("call_2", ReadA)>> }}
    \cup {AssistantMessage(m, NoObject, <<TextBlock(<<"a">>)>>) :
             m \in {"claude-opus-4-5-20251101", "gpt-5", "<synthetic>", Undefined}}
    \cup { AssistantMessage("gpt-5", Usage, <<>>) }

AssistantRecords ==
    {Record(Envelope1, "assistant", Undefined, m, <<>>) : m \in AssistantMessages}
    \cup { Record(Envelope2, "assistant", Undefined,
                  AssistantMessage("gpt-5", NoObject, <<TextBlock(<<"a">>)>>),
                  <<>>) }

QueueRecords ==
    {Record(Envelope1, "queue-operation", Undefined, NoMessage, c) :
        c \in { <<>>, <<"t", "a", "s", "k">> }}

\* Timestamps an hour and minutes after Envelope2's, absent, and not a date
OtherTimestamps ==
    {"2025-01-01T01:04:00Z", "2025-01-01T00:12:00Z", Undefined, "yesterday"}

\* A record of a type the switch has no case for
OtherRecords ==
    {Record(env, "summary", Undefined, NoMessage, <<>>) :
        env \in {Envelope1, Envelope2}}

\* The same with the other timestamps
TimedRecords ==
    {Record([Envelope2 EXCEPT !.timestamp = t], "summary", Undefined,
            NoMessage, <<>>) : t \in OtherTimestamps}

CodexTimestamps == {"2025-01-01T00:00:45Z", "2025-01-01T00:00:00Z"}

SessionMetaPayloads ==
    { [id |-> "s1", cwd |-> "/proj", timestamp |-> "2025-01-01T00:00:00Z",
       cli_version |-> "0.1", model_provider |-> "openai",
       git |-> [branch |-> "main"]],
      [id |-> "s2", cwd |-> "/other", timestamp |-> "2025-01-01T00:12:00Z",
       cli_version |-> "0.2", model_provider |-> "azure", git |-> NoObject] }

ResponseItem(type, role, content, name, arguments, callId, output) ==
    [type |-> type, role |-> role, content |-> content, name |-> name,
     arguments |-> arguments, call_id |-> callId, output |-> output]

NoContent == [kind |-> "absent"]
InputText(text) == [type |-> "input_text", text |-> text]
OutputText(text) == [type |-> "output_text", text |-> text]

MessagePayloads ==
    { ResponseItem("message", "user", ArrayContent(<<InputText(<<"a">>)>>),
                   Undefined, NoObject, Undefined, <<>>) }
    \cup { ResponseItem("message", "assistant", c, Undefined, NoObject,
                        Undefined, <<>>) :
             c \in { NoContent, ArrayContent(<<OutputText(<<"a">>)>>),
                     ArrayContent(<<OutputText(<<" ">>)>>),
                     ArrayContent(<<OutputText(<<"a">>), OutputText(<<"b">>)>>) } }

ShellString(text) ==
    [json |-> "object", command |-> [kind |-> "string", text |-> text],
     path |-> Undefined]
ShellArray(items) ==
    [json |-> "object", command |-> [kind |-> "array", items |-> items],
     path |-> Undefined]

Functions ==
    { [name |-> "shell", arguments |-> ShellString(<<"cat", " ", "/a">>)],
      [name |-> "shell", arguments |-> ShellArray(<< <<"head">>, <<"/b">> >>)],
      [name |-> "shell", arguments |-> ShellString(<<"ls">>)],
      [name |-> "read_file",
       arguments |-> [json |-> "object", command |-> [kind |-> "absent"],
                      path |-> "/a"]],
      [name |-> "shell", arguments |-> [json |-> "invalid"]],
      [name |-> "update_plan", arguments |-> NoObject] }

FunctionCallPayloads ==
    { ResponseItem("function_call", Undefined, NoContent, f.name, f.arguments,
                   id, <<>>) : f \in Functions, id \in CallIds }
    \cup { ResponseItem("function_call", Undefined, NoContent, "shell",
                        ShellString(<<"ls">>), Undefined, <<>>),
           ResponseItem("function_call", Undefined, NoContent, Undefined,
                        ShellString(<<"ls">>), "call_1", <<>>) }

Outputs ==
    { <<>>, <<"{", "\"exit_code\":", "0", "}">>,
      <<"{", "\"exit_code\":", "1", "}">>, <<"d", "o", "n", "e">> }

FunctionCallOutputPayloads ==
    { ResponseItem("function_call_output", Undefined, NoContent, Undefined,
                   NoObject, id, o) : id \in CallIds \cup {Undefined}, o \in Outputs }

ReasoningPayloads ==
    { ResponseItem("reasoning", Undefined, NoContent, Undefined, NoObject,
                   Undefined, <<>>) }

ResponseItemPayloads ==
    MessagePayloads \cup FunctionCallPayloads \cup FunctionCallOutputPayloads
    \cup ReasoningPayloads

EventMsgPayloads ==
    { [type |-> "user_message", message |-> m] :
        m \in { <<"a">>, <<" ">>, <<>>, <<"<context>", " ">>,
                <<"[@file](url)", " ", "a">> } }
    \cup { [type |-> "token_count", message |-> <<>>] }

TurnContextPayloads == { [model |-> m] : m \in {"gpt-5", "o3", Undefined} }

CodexRecord(timestamp, type, payload) ==
    [timestamp |-> timestamp, type |-> type, payload |-> payload]

\* Lines that are blank or are not JSON
IgnoredLines ==
    { [text |-> <<>>, parsed |-> NotJson],
      [text |-> <<" ", "\n">>, parsed |-> NotJson],
      [text |-> <<"{">>, parsed |-> NotJson] }

\* Lines that are JSON and not a well-formed record of source A: null, a
\* user and an assistant record with no message, an assistant message with
\* no content, a text block with no text
MalformedLines ==
    { [text |-> <<"null">>, parsed |-> NullObject] }
    \cup { [text |-> <<"{", "}">>, parsed |-> r] :
             r \in { Record(Envelope1, "user", Undefined, NoObject, <<>>),
                     Record(Envelope1, "assistant", Undefined, NoObject, <<>>),
                     Record(Envelope1, "assistant", Undefined,
                            [role |-> "assistant", model |-> Undefined,
                             usage |-> NoObject,
                             content |-> [kind |-> "absent"]], <<>>),
                     Record(Envelope1, "user", Undefined,
                            UserMessage(ArrayContent(
                                <<[type |-> "text", text |-> Undefined]>>)),
                            <<>>) } }

\* Lines that are JSON and not a well-formed record of source B
CodexMalformedLines ==
    { [text |-> <<"null">>, parsed |-> NullObject] }
    \cup { [text |-> <<"{", "}">>,
            parsed |-> CodexRecord("2025-01-01T00:00:45Z", t, NoObject)] :
             t \in {"session_meta", "response_item"} }


-----------------------------------------------------------------------------
(* The sessions *)

NoRecord == [none |-> TRUE]

EnvelopeOf(record) ==
    [sessionId |-> record.sessionId, cwd |-> record.cwd,
     timestamp |-> record.timestamp, version |-> record.version,
     gitBranch |-> record.gitBranch]

\* No stream is read
NoInput == [chunks |-> <<>>, read |-> 0]

InitHistory ==
    /\ out = <<>>
    /\ emitted = NoneEmitted
    /\ open = {}
    /\ answered = 0
    /\ closed = {}
    /\ stray = 0
    /\ repeats = 0
    /\ textsSeen = 0
    /\ firstRecord = NoRecord
    /\ failed = 0
    /\ modelsSeen = <<>>
    /\ ignored = 0
    /\ written = <<>>
    /\ lastSeen = Null

\* new TranscriptParser()
InitClaude ==
    /\ adapter = "claude"
    /\ pc = "open"
    /\ nParsed = 0
    /\ pendingTools = EmptyMap
    /\ pendingFunctions = EmptyMap
    /\ metadata = NullObject
    /\ metadataEmitted = FALSE
    /\ currentModel = Null
    /\ stats = InitStats
    /\ data = NullObject
    /\ InitHistory
    /\ inputLines = <<>>
    /\ unavailable = {}
    /\ stdin = NoInput
    /\ buffer = <<>>
    /\ instances = <<>>
    /\ heap = <<>>

\* new CodexTranscriptParser()
InitCodex ==
    /\ adapter = "codex"
    /\ pc = "open"
    /\ nParsed = 0
    /\ pendingTools = EmptyMap
    /\ pendingFunctions = EmptyMap
    /\ metadata = NullObject
    /\ metadataEmitted = FALSE
    /\ currentModel = Null
    /\ stats = InitCodexStats
    /\ data = NullObject
    /\ InitHistory
    /\ inputLines = <<>>
    /\ unavailable = {}
    /\ stdin = NoInput
    /\ buffer = <<>>
    /\ instances = <<>>
    /\ heap = <<>>

CanParse(which) == adapter = which /\ pc = "open" /\ nParsed < MaxRecords

\* What a call of parse() leaves in the parser r.self after it returned
\* the text r.output
Returned(r) ==
    /\ pendingTools' = IF adapter = "codex" THEN pendingTools
                       ELSE r.self.pendingTools
    /\ pendingFunctions' = IF adapter = "codex" THEN r.self.pendingFunctions
                           ELSE pendingFunctions
    /\ metadata' = r.self.metadata
    /\ metadataEmitted' = r.self.metadataEmitted
    /\ currentModel' = r.self.currentModel
    /\ stats' = r.self.stats
    /\ out' = r.output
    /\ written' = written \o KindsOf(r.output)
    /\ emitted' = Emit(emitted, r.output)

\* The same of a call that may have raised
ReturnedOrThrew(r) ==
    /\ Returned(r)
    /\ pc' = IF r.threw THEN "thrown" ELSE pc

\* The requests and results of a record, entered in the history
Correlated(c) ==
    /\ open' = c.open
    /\ answered' = c.answered
    /\ closed' = c.closed
    /\ stray' = c.stray
    /\ repeats' = c.repeats
    /\ failed' = c.failed

\* parse(line) of TranscriptParser on a line that holds the record
ParseRecord(record) ==
    /\ CanParse("claude")
    /\ nParsed' = nParsed + 1
    /\ Returned(parse(Self, record))
    /\ Correlated(Correlate(RecordEvents(record), Correlation))
    /\ textsSeen' = textsSeen + RecordTexts(record)
    /\ firstRecord' = IF firstRecord = NoRecord THEN EnvelopeOf(record)
                      ELSE firstRecord
    /\ modelsSeen' = modelsSeen \o RecordModels(record)
    /\ lastSeen' = record.timestamp
    /\ UNCHANGED <<adapter, pc, data, ignored, inputLines, unavailable,
                   instances, heap, stdin, buffer>>

\* parse(line) of either parser on a blank line or on text that is not JSON
ParseIgnoredLine ==
    /\ pc = "open" /\ nParsed < MaxRecords
    /\ \E line \in IgnoredLines :
          /\ nParsed' = nParsed + 1
          /\ ignored' = ignored + 1
          /\ ReturnedOrThrew(IF adapter = "codex"
                             THEN codexParseLine(CodexSelf, line)
                             ELSE parseLine(Self, line))
    /\ UNCHANGED <<adapter, open, answered, closed, stray, repeats, textsSeen,
                   firstRecord, failed, modelsSeen, data, lastSeen, inputLines, unavailable,
                   instances, heap, stdin, buffer>>

\* parse(line) of TranscriptParser on JSON that is not a well-formed record:
\* a call that raises returns nothing, and no driver catches the exception
ParseMalformedLine ==
    /\ CanParse("claude")
    /\ \E line \in MalformedLines :
          /\ nParsed' = nParsed + 1
          /\ ReturnedOrThrew(parseLine(Self, line))
    /\ UNCHANGED <<adapter, open, answered, closed, stray, repeats, textsSeen,
                   firstRecord, failed, modelsSeen, ignored, data, lastSeen,
                   inputLines, unavailable,
                   instances, heap, stdin, buffer>>

\* The same of CodexTranscriptParser
CodexParseMalformedLine ==
    /\ CanParse("codex")
    /\ \E line \in CodexMalformedLines :
          /\ nParsed' = nParsed + 1
          /\ ReturnedOrThrew(codexParseLine(CodexSelf, line))
    /\ UNCHANGED <<adapter, open, answered, closed, stray, repeats, textsSeen,
                   firstRecord, failed, modelsSeen, ignored, data, lastSeen,
                   inputLines, unavailable,
                   instances, heap, stdin, buffer>>

ParseUser == \E record \in UserRecords : ParseRecord(record)
ParseAssistant == \E record \in AssistantRecords : ParseRecord(record)
ParseQueue == \E record \in QueueRecords : ParseRecord(record)
ParseOther == \E record \in OtherRecords : ParseRecord(record)
ParseTimed == \E record \in TimedRecords : ParseRecord(record)

\* The text finalize() returned, entered in the history
Written(output) ==
    /\ out' = output
    /\ written' = written \o KindsOf(output)

\* finalize() of TranscriptParser
Finalize ==
    /\ adapter = "claude" /\ pc = "open"
    /\ pc' = "finalized"
    /\ Written(finalize(Self))
    /\ UNCHANGED <<adapter, nParsed, pendingTools, pendingFunctions, metadata,
                   metadataEmitted, currentModel, stats, emitted, open,
                   answered, closed, stray, repeats, textsSeen, firstRecord,
                   failed, modelsSeen, ignored, data, lastSeen, inputLines, unavailable,
                   instances, heap, stdin, buffer>>

\* parse(line) of CodexTranscriptParser on a line that holds the record
CodexParseRecord(record) ==
    /\ CanParse("codex")
    /\ nParsed' = nParsed + 1
    /\ Returned(codexParse(CodexSelf, record))
    /\ Correlated(Correlate(CodexRecordEvents(record), Correlation))
    /\ textsSeen' = textsSeen + CodexRecordTexts(record)
    /\ modelsSeen' = modelsSeen \o CodexRecordModels(record)
    /\ lastSeen' = record.timestamp
    /\ UNCHANGED <<adapter, pc, firstRecord, ignored, data, inputLines, unavailable,
                   instances, heap, stdin, buffer>>

CodexParseSessionMeta ==
    \E t \in CodexTimestamps, p \in SessionMetaPayloads :
        CodexParseRecord(CodexRecord(t, "session_meta", p))
CodexParseResponseItem ==
    \E t \in CodexTimestamps, p \in ResponseItemPayloads :
        CodexParseRecord(CodexRecord(t, "response_item", p))
CodexParseEventMsg ==
    \E t \in CodexTimestamps, p \in EventMsgPayloads :
        CodexParseRecord(CodexRecord(t, "event_msg", p))
CodexParseTurnContext ==
    \E t \in CodexTimestamps, p \in TurnContextPayloads :
        CodexParseRecord(CodexRecord(t, "turn_context", p))

\* finalize() of CodexTranscriptParser
CodexFinalize ==
    /\ adapter = "codex" /\ pc = "open"
    /\ pc' = "finalized"
    /\ Written(codexFinalize(CodexSelf))
    /\ UNCHANGED <<adapter, nParsed, pendingTools, pendingFunctions, metadata,
                   metadataEmitted, currentModel, stats, emitted, open,
                   answered, closed, stray, repeats, textsSeen, firstRecord,
                   failed, modelsSeen, ignored, data, lastSeen, inputLines, unavailable,
                   instances, heap, stdin, buffer>>

NextClaude ==
    \/ ParseIgnoredLine
    \/ ParseMalformedLine
    \/ ParseUser
    \/ ParseAssistant
    \/ ParseQueue
    \/ ParseOther
    \/ Finalize

NextCodex ==
    \/ ParseIgnoredLine
    \/ CodexParseMalformedLine
    \/ CodexParseSessionMeta
    \/ CodexParseResponseItem
    \/ CodexParseEventMsg
    \/ CodexParseTurnContext
    \/ CodexFinalize

\* One session of source A
SpecClaude == InitClaude /\ [][NextClaude]_vars

\* Source A over records whose timestamps are further apart, absent or not
\* a date
NextDuration ==
    \/ ParseTimed
    \/ ParseUser
    \/ ParseOther
    \/ Finalize

SpecDuration == InitClaude /\ [][NextDuration]_vars

\* One session of source B
SpecCodex == InitCodex /\ [][NextCodex]_vars

\* One session of either streaming source
InitStreaming == InitClaude \/ InitCodex
NextStreaming ==
    \/ ParseIgnoredLine
    \/ ParseMalformedLine
    \/ CodexParseMalformedLine
    \/ ParseUser
    \/ ParseAssistant
    \/ ParseQueue
    \/ ParseOther
    \/ Finalize
    \/ CodexParseSessionMeta
    \/ CodexParseResponseItem
    \/ CodexParseEventMsg
    \/ CodexParseTurnContext
    \/ CodexFinalize
SpecStreaming == InitStreaming /\ [][NextStreaming]_vars

-----------------------------------------------------------------------------
(* processFile of batch.ts: one file of source A, from its lines to the text
   that is written *)

MaxLines == 5

\* Records of a file: one that only carries the envelope, a user text, a
\* request for a Glob, its result, an assistant text
FileRecords ==
    << Record(Envelope1, "summary", Undefined, NoMessage, <<>>),
       Record(Envelope1, "user", Undefined,
              UserMessage(StringContent(<<"find config">>)), <<>>),
       Record(Envelope1, "assistant", Undefined,
              AssistantMessage(Undefined, NoObject,
                               <<ToolUseBlock("call_1", GlobConfig)>>), <<>>),
       Record(Envelope1, "user", Undefined,
              UserMessage(ArrayContent(<<ToolResultBlock("call_1", Undefined)>>)),
              <<>>),
       Record(Envelope1, "assistant", Undefined,
              AssistantMessage(Undefined, NoObject,
                               <<TextBlock(<<"Found it">>)>>), <<>>) >>

\* const parser = new TranscriptParser(); const lines = text.split("\n");
\* let output = ""
InitProcessFile ==
    /\ adapter = "claude"
    /\ pc = "open"
    /\ nParsed = 0
    /\ pendingTools = EmptyMap
    /\ pendingFunctions = EmptyMap
    /\ metadata = NullObject
    /\ metadataEmitted = FALSE
    /\ currentModel = Null
    /\ stats = InitStats
    /\ data = NullObject
    /\ InitHistory
    /\ \E n \in 0..MaxLines :
          \E file \in [1..n -> 1..Len(FileRecords)] :
              inputLines = [i \in 1..n |-> FileRecords[file[i]]]
    /\ unavailable = {}
    /\ stdin = NoInput
    /\ buffer = <<>>
    /\ instances = <<>>
    /\ heap = <<>>

\* output += ..., entered in the history as well
Appended(output) ==
    /\ out' = out \o output
    /\ written' = written \o KindsOf(output)

\* The parser after a call that returned r
Parsed(r) ==
    /\ pendingTools' = r.self.pendingTools
    /\ metadata' = r.self.metadata
    /\ metadataEmitted' = r.self.metadataEmitted
    /\ currentModel' = r.self.currentModel
    /\ stats' = r.self.stats
    /\ emitted' = Emit(emitted, r.output)
    /\ Appended(r.output)

ProcessRecord(record) ==
    /\ nParsed' = nParsed + 1
    /\ Parsed(parse(Self, record))
    /\ Correlated(Correlate(RecordEvents(record), Correlation))
    /\ textsSeen' = textsSeen + RecordTexts(record)
    /\ firstRecord' = IF firstRecord = NoRecord THEN EnvelopeOf(record)
                      ELSE firstRecord
    /\ modelsSeen' = modelsSeen \o RecordModels(record)
    /\ lastSeen' = record.timestamp

\* for (const line of lines) output += parser.parse(line)
ProcessLine ==
    /\ adapter = "claude" /\ pc = "open" /\ nParsed < Len(inputLines)
    /\ ProcessRecord(inputLines[nParsed + 1])
    /\ UNCHANGED <<adapter, pc, pendingFunctions, data, ignored, inputLines, unavailable,
                   instances, heap, stdin, buffer>>

\* processBatch: a file of size 0 is counted as skipped and processFile is
\* not called for it
SkipFile ==
    /\ adapter = "claude" /\ pc = "open" /\ Len(inputLines) = 0
    /\ pc' = "skipped"
    /\ UNCHANGED <<adapter, nParsed, pendingTools, pendingFunctions, metadata,
                   metadataEmitted, currentModel, stats, data, out, emitted,
                   open, answered, closed, stray, repeats, textsSeen,
                   firstRecord, failed, modelsSeen, ignored, written,
                   lastSeen, inputLines, unavailable, instances, heap, stdin, buffer>>

\* output += parser.finalize(); await Bun.write(outputPath, output)
WriteFile ==
    /\ adapter = "claude" /\ pc = "open" /\ nParsed = Len(inputLines)
    /\ Len(inputLines) > 0
    /\ pc' = "written"
    /\ Appended(finalize(Self))
    /\ UNCHANGED <<adapter, nParsed, pendingTools, pendingFunctions, metadata,
                   metadataEmitted, currentModel, stats, emitted, open,
                   answered, closed, stray, repeats, textsSeen, firstRecord,
                   failed, modelsSeen, ignored, data, lastSeen, inputLines, unavailable,
                   instances, heap, stdin, buffer>>

NextProcessFile ==
    \/ SkipFile
    \/ ProcessLine
    \/ WriteFile

\* One file of source A through the batch driver
SpecProcessFile == InitProcessFile /\ [][NextProcessFile]_vars


-----------------------------------------------------------------------------
(* A session of the fragmented source: storage directories and the batch
   driver's step on one session (opencode/batch.ts) *)

MaxMessages == 2

\* A session file
Session(title) ==
    [id |-> "ses_1", directory |-> "/proj", title |-> title,
     time |-> [created |-> 1000]]

SessionFiles == {NullObject, Session(<<"t">>), Session(<<>>)}

\* A message file; completed, tokens and cost are 0 when the file omits them
Message(role, created, completed, modelID, input, output, cost) ==
    [role |-> role, time |-> [created |-> created, completed |-> completed],
     modelID |-> modelID, tokens |-> [input |-> input, output |-> output],
     cost |-> cost]

MessageShapes ==
    {Message("user", 2000, 0, Undefined, 0, 0, 0),
     Message("assistant", 2000, 0, Undefined, 0, 0, 0),
     Message("assistant", 46000, 3841000, "gpt-5", 1200, 30, 125),
     Message("assistant", 2000, 721000, "claude-sonnet-4", 0, 0, 0)}

\* Part files
TextPart(text, synthetic) ==
    [type |-> "text", text |-> text, synthetic |-> synthetic,
     tool |-> Undefined, state |-> NoObject]
ToolState(title, input, meta) ==
    [title |-> title, input |-> input, metadata |-> meta]
ToolPartFile(tool, state) ==
    [type |-> "tool", text |-> <<>>, synthetic |-> Undefined, tool |-> tool,
     state |-> state]
ReasoningPart ==
    [type |-> "reasoning", text |-> <<"r">>, synthetic |-> Undefined,
     tool |-> Undefined, state |-> NoObject]

PartLists ==
    {<<>>,
     <<TextPart(<<"a">>, Undefined)>>,
     <<TextPart(<<" ">>, Undefined)>>,
     <<TextPart(<<"<file>", "x">>, Undefined), TextPart(<<"a">>, JsTrue)>>,
     <<ToolPartFile("read", ToolState(<<"/a">>, [filePath |-> "/a"],
                                      [exit |-> "0", description |-> <<>>]))>>,
     <<ToolPartFile("bash", ToolState(<<>>, NoObject,
                                      [exit |-> "1", description |-> <<"ls">>])),
       TextPart(<<" ", "b">>, Undefined)>>,
     <<TextPart(<<"c">>, Undefined),
       ToolPartFile("edit", ToolState(<<"/c">>, NoObject,
                                      [exit |-> "0", description |-> <<>>]))>>,
     <<ToolPartFile("bash", ToolState(<<"sleep">>, NoObject,
                                      [exit |-> Null, description |-> <<>>]))>>,
     <<TextPart(<<"Called the", " ", "x">>, Undefined),
       ToolPartFile("write", ToolState(<<"/b">>, [filePath |-> "/b"], NoObject)),
       ToolPartFile("read", NoObject), ReasoningPart>>}

MessageIds == <<"msg_1", "msg_2", "msg_3">>

\* The storage directories of one session: the session file, the message
\* files in the order readdir lists them, and each message's part files
Storage(session, shapes, parts) ==
    [session |-> session,
     messages |-> [i \in DOMAIN shapes |->
                      IF shapes[i] = Unreadable THEN Unreadable
                      ELSE [id |-> MessageIds[i]] @@ shapes[i]],
     parts |-> [id \in {MessageIds[i] : i \in DOMAIN shapes} |->
                   parts[CHOOSE i \in DOMAIN shapes : MessageIds[i] = id]]]

InitOpenCode ==
    /\ adapter = "opencode"
    /\ pc = "open"
    /\ nParsed = 0
    /\ pendingTools = EmptyMap
    /\ pendingFunctions = EmptyMap
    /\ metadata = NullObject
    /\ metadataEmitted = FALSE
    /\ currentModel = Null
    /\ stats = InitOpenCodeStats
    /\ data = NullObject
    /\ InitHistory
    /\ inputLines = <<>>
    /\ unavailable = {}
    /\ stdin = NoInput
    /\ buffer = <<>>
    /\ instances = <<>>
    /\ heap = <<>>

\* The kinds of entity of a storage that are missing or cannot be read
Unavailable(storage) ==
    {k \in {"session"} : storage.session \in {NullObject, Unreadable}}
    \cup {k \in {"message"} : AnyUnreadable(storage.messages)}
    \cup {k \in {"part"} : \E id \in DOMAIN storage.parts :
                               AnyUnreadable(storage.parts[id])}

\* processBatch, one session: const data = await loadSession(...)
LoadFrom(sessionFiles, messageShapes, partLists) ==
    /\ adapter = "opencode" /\ pc = "open"
    /\ \E session \in sessionFiles, n \in 0..MaxMessages :
       \E shapes \in [1..n -> messageShapes], parts \in [1..n -> partLists] :
        /\ data' = loadSession(Storage(session, shapes, parts))
        /\ unavailable' = Unavailable(Storage(session, shapes, parts))
        /\ pc' = IF data' = NullObject THEN "skipped" ELSE "loaded"
        /\ UNCHANGED <<adapter, nParsed, pendingTools, pendingFunctions,
                       metadata, metadataEmitted, currentModel, stats, out,
                       emitted, open, answered, closed, stray, repeats,
                       textsSeen, firstRecord, failed, modelsSeen, ignored,
                       written, lastSeen, inputLines, instances, heap, stdin, buffer>>

\* The text and the accumulator of formatSession
Formatted(r) ==
    /\ out' = r.output
    /\ written' = KindsOf(r.output)
    /\ stats' = r.stats
    /\ emitted' = Emit(NoneEmitted, r.output)
    /\ pc' = IF NonEmpty(Trim(r.output)) THEN "written" ELSE "skipped"

\* processBatch, one session: const content = formatSession(data), written
\* when content.trim() is not empty
FormatSession ==
    /\ adapter = "opencode" /\ pc = "loaded"
    /\ Formatted(formatSessionRun(data))
    /\ UNCHANGED <<adapter, nParsed, pendingTools, pendingFunctions,
                   metadata, metadataEmitted, currentModel, data, open,
                   answered, closed, stray, repeats, textsSeen,
                   firstRecord, failed, modelsSeen, ignored, lastSeen,
                   inputLines, unavailable,
                   instances, heap, stdin, buffer>>

\* A session whose storage is whole or lacks the session file
LoadSession == LoadFrom(SessionFiles, MessageShapes, PartLists)

\* A session whose storage may hold files that cannot be read
UnreadableSessionFiles ==
    {NullObject, Unreadable, Session(<<"t">>), Session(<<>>)}
UnreadableMessageShapes ==
    {Message("user", 2000, 0, Undefined, 0, 0, 0),
     Message("assistant", 46000, 3841000, "gpt-5", 1200, 30, 125),
     Unreadable}
UnreadablePartLists ==
    {<<>>,
     <<TextPart(<<"a">>, Undefined)>>,
     <<TextPart(<<"d">>, Undefined), Unreadable>>,
     <<ToolPartFile("bash", ToolState(<<>>, NoObject,
                                      [exit |-> "1", description |-> <<"ls">>])),
       TextPart(<<"e">>, Undefined)>>}

LoadUnreadable ==
    LoadFrom(UnreadableSessionFiles, UnreadableMessageShapes,
             UnreadablePartLists)

NextStorage ==
    \/ LoadUnreadable
    \/ FormatSession

\* One session of the fragmented source on a storage with unreadable files
SpecStorage == InitOpenCode /\ [][NextStorage]_vars

NextOpenCode ==
    \/ LoadSession
    \/ FormatSession

\* One session of the fragmented source
SpecOpenCode == InitOpenCode /\ [][NextOpenCode]_vars


-----------------------------------------------------------------------------
(* Properties *)

\* The correlation store and the tool counters of the running adapter
Store == IF adapter = "codex" THEN pendingFunctions ELSE pendingTools
ToolCallCount == IF adapter = "codex" THEN stats.functionCalls ELSE stats.toolCalls
ToolErrorCount ==
    IF adapter = "codex" THEN stats.functionErrors ELSE stats.toolErrors
FileSets ==
    IF adapter = "codex" THEN <<stats.filesRead, stats.filesWritten>>
    ELSE <<stats.filesRead, stats.filesWritten, stats.filesEdited>>
OutcomeLines == emitted["toolSuccess"] + emitted["toolFailure"]
TurnLines == emitted["user"] + emitted["assistant"]

\* C1: in both streaming adapters, after every parse() the number of
\* tool-outcome lines written so far is the number of results that answered
\* an open request: one line per request-result pair, written by the call
\* that parsed the result, and none for a repeated result.
C1_OneOutcomePerAnsweredRequest == OutcomeLines = answered

C1_Witness ==
    /\ adapter = "codex"
    /\ answered = 1
    /\ repeats = 1
    /\ OutcomeLines = 1
    /\ out = <<>>

\* C2 as claimed: a request whose result never arrives writes no line, is
\* not counted, and is absent from the correlation store once finalize()
\* has returned.
C2_NoResidueAfterFinalize ==
    /\ OutcomeLines = answered
    /\ ToolCallCount = answered
    /\ ToolErrorCount <= answered
    /\ pc = "finalized" => \A id \in open : ~MapHas(Store, id)

\* C3: a parse() that reads results of call IDs with no pending entry, and
\* no result that answers a request, writes no outcome line and leaves the
\* correlation store, the tool counters and the file-touch sets as they were.
C3_UnknownResultStep ==
    (stray' + repeats' > stray + repeats /\ answered' = answered)
    => /\ CountKind(out', "toolSuccess") + CountKind(out', "toolFailure") = 0
       /\ Store' = Store
       /\ ToolCallCount' = ToolCallCount
       /\ ToolErrorCount' = ToolErrorCount
       /\ FileSets' = FileSets

C3_UnknownResultIgnored == [][C3_UnknownResultStep]_vars

C3_Witness ==
    /\ adapter = "claude"
    /\ stray = 1
    /\ repeats = 1
    /\ answered = 1
    /\ DOMAIN pendingTools = {}
    /\ stats.toolCalls = 1

ContentLines ==
    emitted["user"] + emitted["assistant"] + emitted["toolSuccess"]
    + emitted["toolFailure"] + emitted["model"] + emitted["queue"]
OutContentLines ==
    CountKind(out, "user") + CountKind(out, "assistant")
    + CountKind(out, "toolSuccess") + CountKind(out, "toolFailure")
    + CountKind(out, "model") + CountKind(out, "queue")

\* C5: the text formatSession returns for a joined session holds no summary
\* block when it holds no user-turn line and no assistant-turn line.
C5_NoTurnsNoSummaryBlock ==
    (adapter = "opencode" /\ pc = "written" /\ TurnLines = 0)
        => emitted["summary"] = 0

\* C6: in source A, finalize() returns a summary only if some parse() of the
\* session wrote a user-turn line or an assistant-turn line.
C6_SummaryOnlyAfterTurnLine ==
    (adapter = "claude" /\ pc = "finalized" /\ TurnLines = 0) => out = <<>>

\* C7: in source A the metadata block is written exactly once, by the parse()
\* of the first record parsed and from that record's fields, as the first
\* lines of that call's output with nothing written by any earlier call; no
\* later record writes it again, whatever session ID, directory, version or
\* branch it carries.
C7_MetadataOnceFromFirstRecord ==
    LET header ==
            formatMetadata([sessionId |-> firstRecord.sessionId,
                            project |-> firstRecord.cwd,
                            started |-> firstRecord.timestamp,
                            version |-> firstRecord.version,
                            gitBranch |-> firstRecord.gitBranch]) \o <<"\n">>
    IN  /\ emitted["session"] = IF firstRecord = NoRecord THEN 0 ELSE 1
        /\ ContentLines > 0 => emitted["session"] = 1
        /\ CountKind(out, "session") > 0 =>
              /\ CountKind(out, "session") = 1
              /\ Len(out) >= Len(header)
              /\ SubSeq(out, 1, Len(header)) = header
              /\ ContentLines = OutContentLines

C7_Witness ==
    /\ adapter = "claude"
    /\ nParsed = MaxRecords
    /\ firstRecord = Envelope1
    /\ stats.lastTimestamp = Envelope2.timestamp
    /\ emitted["session"] = 1
    /\ CountKind(out, "session") = 0
    /\ CountKind(out, "user") = 1
    /\ metadata.sessionId = "s1"

\* C8: in source B the metadata block is written exactly once and before the
\* first content line: a later session_meta record writes nothing, and no
\* content line is written while the metadata block has not been.
C8_CodexMetadataOnceAndFirst ==
    /\ emitted["session"] <= 1
    /\ ContentLines > 0 => emitted["session"] = 1
    /\ CountKind(out, "session") > 0 => ContentLines = OutContentLines

\* C9: in source A the model-change lines written so far are one per
\* assistant record whose model identifier is present, is not the sentinel
\* "<synthetic>" and differs from the model recorded last, and the recorded
\* model is the identifier of the last such record: a repeated, absent or
\* sentinel identifier writes no line and leaves the recorded model alone.
C9_ModelChangeOnTransition ==
    LET changes == ModelChanges(modelsSeen, Null)
    IN  /\ emitted["model"] = Len(changes)
        /\ currentModel = IF Len(changes) = 0 THEN Null
                          ELSE changes[Len(changes)]
        /\ CountKind(out, "model") <= 1

C9_Witness ==
    /\ adapter = "claude"
    /\ modelsSeen = <<"gpt-5", "<synthetic>", "gpt-5">>
    /\ emitted["model"] = 1
    /\ currentModel = "gpt-5"
    /\ CountKind(out, "model") = 0

\* One parse() of source A, seen from the file-touch sets
C10_Step ==
    LET resolved == DOMAIN pendingTools \ DOMAIN pendingTools'
        Paths(name) ==
            {pendingTools[id].input.file_path :
                id \in {i \in resolved :
                           /\ pendingTools[i].name = name
                           /\ Truthy(pendingTools[i].input.file_path)}}
        newRead == stats'.filesRead \ stats.filesRead
        newWritten == stats'.filesWritten \ stats.filesWritten
        newEdited == stats'.filesEdited \ stats.filesEdited
        newCalls == stats'.toolCalls - stats.toolCalls
        newErrors == stats'.toolErrors - stats.toolErrors
    IN  adapter = "claude" =>
            /\ newRead \subseteq Paths("Read")
            /\ newWritten \subseteq Paths("Write")
            /\ newEdited \subseteq Paths("Edit")
            /\ stats.filesRead \subseteq stats'.filesRead
            /\ stats.filesWritten \subseteq stats'.filesWritten
            /\ stats.filesEdited \subseteq stats'.filesEdited
            /\ Cardinality(newRead) + Cardinality(newWritten)
               + Cardinality(newEdited) <= newCalls - newErrors
            /\ newCalls = answered' - answered
            /\ newErrors = failed' - failed

\* C10: in source A a parse() adds a path to the read, written or edited set
\* only from a Read, Write or Edit request with a file_path that the call
\* resolves, and adds no more paths than it resolves requests without an
\* error; every answering result adds one to the tool-call count and every
\* answering result flagged an error adds one to the failure count, so a call
\* that resolves only errors leaves the three sets as they were.
C10_FileTouchOnlyOnSuccess == [][C10_Step]_vars

C10_Witness ==
    /\ adapter = "claude"
    /\ nParsed = 2
    /\ answered = 2
    /\ failed = 1
    /\ stats.toolCalls = 2
    /\ stats.toolErrors = 1
    /\ stats.filesRead = {"/a"}
    /\ stats.filesEdited = {}
    /\ DOMAIN pendingTools = {}

\* One parse() of source B that counts a failed call
C11_Step ==
    (adapter = "codex" /\ stats'.functionErrors > stats.functionErrors)
        => stats'.filesRead = stats.filesRead

\* C11: in source B a parse() that resolves a call whose output reports a
\* non-zero exit code, and counts it as failed, adds no path to the
\* files-read set.
C11_FailedShellReadNotTracked == [][C11_Step]_vars

\* The lines of a text that carry the label under the metadata tag
LabelLines(text, label) ==
    LET ls == Lines(text)
    IN  SelectSeq(ls, LAMBDA l : Len(l) >= 3 /\ l[1] = EMOJI.metadata
                                 /\ l[2] = " " /\ l[3] = label)

\* One call of source A, seen from the files-read set and the summary
C12_Step ==
    LET resolved == DOMAIN pendingTools \ DOMAIN pendingTools'
        paths == {pendingTools[id].input.file_path : id \in resolved}
        reads == \A id \in resolved :
                    /\ pendingTools[id].name = "Read"
                    /\ Truthy(pendingTools[id].input.file_path)
        files == LabelLines(out', "Files: ")
        calls == LabelLines(out', "Tool calls: ")
    IN  adapter = "claude" =>
            /\ (resolved # {} /\ reads /\ stats'.toolErrors = stats.toolErrors)
                  => /\ stats'.filesRead = stats.filesRead \cup paths
                     /\ stats'.toolCalls = stats.toolCalls + Cardinality(resolved)
            /\ (pc' = "finalized" /\ out' # <<>>) =>
                  /\ Len(calls) = 1
                  /\ calls[1][4] = ToString(stats.toolCalls)
                  /\ stats.filesRead # {} =>
                        /\ Len(files) = 1
                        /\ files[1][4] = ToString(Cardinality(stats.filesRead))
                        /\ files[1][5] = " read"

\* C12: in source A every successful Read that a parse() resolves adds one to
\* the tool-call count and its path to the files-read set, where a path
\* already present is not added again; the summary prints the number of
\* distinct paths read and the number of calls.
C12_ReadSetIdempotent == [][C12_Step]_vars

C12_Witness ==
    /\ adapter = "claude"
    /\ pc = "finalized"
    /\ nParsed = MaxRecords
    /\ answered = 2
    /\ failed = 0
    /\ stats.toolCalls = 2
    /\ stats.filesRead = {"/a"}
    /\ stats.filesEdited = {}
    /\ LabelLines(out, "Files: ") = << <<EMOJI.metadata, " ", "Files: ", "1", " read">> >>

\* One parse() of a blank or unparseable line
C13_Step ==
    ignored' > ignored =>
        /\ out' = <<>>
        /\ pc' = pc
        /\ metadata' = metadata
        /\ metadataEmitted' = metadataEmitted
        /\ currentModel' = currentModel
        /\ pendingTools' = pendingTools
        /\ pendingFunctions' = pendingFunctions
        /\ stats' = stats

\* C13: in both streaming adapters a parse() of a line that is blank or is
\* not JSON returns the empty text and leaves metadata, the metadata-emitted
\* flag, the current model, the correlation store and the accumulator
\* (counters, file sets, last timestamp) as they were, so what follows is
\* what would follow without the line.
C13_IgnoredLineChangesNothing == [][C13_Step]_vars

C13_Witness ==
    /\ ignored = 1
    /\ nParsed = MaxRecords
    /\ pc = "open"
    /\ out = <<>>
    /\ metadataEmitted
    /\ ToolCallCount = 1
    /\ stats.lastTimestamp # Null

\* C14: no parse() or finalize() call of a streaming adapter raises an
\* exception, whatever the line.
C14_NoCallThrows == pc # "thrown"


\* C15: every non-blank line of the output begins with one of the fixed tags
\* followed by a single space, one event per line, also when a user or an
\* assistant text holds newlines inside it.
C15_EveryLineTagged == \A i \in DOMAIN written : written[i] # "untagged"

\* The place of the first line after the metadata block whose first line is
\* line i of what was written
MetadataBlockEnd(i) ==
    CHOOSE j \in (i + 1)..(Len(written) + 1) :
        /\ j = Len(written) + 1 \/ written[j] # "metafield"
        /\ \A k \in (i + 1)..(j - 1) : written[k] = "metafield"

\* C16: in all that parse() and then finalize() returned, put together, the
\* metadata block is followed by exactly one blank line and the summary
\* block comes after exactly one blank line.
C16_OneBlankLineEachSide ==
    \A i \in DOMAIN written :
        /\ written[i] = "session" =>
              LET j == MetadataBlockEnd(i)
              IN  /\ j <= Len(written)
                  /\ written[j] = "blank"
                  /\ j + 1 <= Len(written) => written[j + 1] # "blank"
        /\ written[i] = "summary" =>
              /\ i > 1
              /\ written[i - 1] = "blank"
              /\ i > 2 => written[i - 2] # "blank"

\* The lines of a text that follow its summary heading
SummaryBlock(text) ==
    LET ls == Lines(text)
        at == {i \in 1..Len(ls) : LineKind(ls[i]) = "summary"}
    IN  IF at = {} THEN <<>>
        ELSE SubSeq(ls, (CHOOSE i \in at : \A k \in at : k <= i) + 1, Len(ls))

\* The place of a summary field in the stated order, 0 for any other line
FieldRank(line) ==
    IF Len(line) < 3 THEN 0
    ELSE CASE line[3] = "Duration: " -> 1
           [] line[3] = "Model: " -> 2
           [] line[3] = "Messages: " -> 3
           [] line[3] \in {"Tool calls: ", "Function calls: "} -> 4
           [] line[3] = "Files: " -> 5
           [] line[3] = "Tokens: " -> 6
           [] line[3] = "Cache: " -> 7
           [] OTHER -> 0

\* C17: the fields of a summary block come in the order duration, active
\* model, message counts, tool calls, file counts, token totals, cache
\* totals, in every adapter.
C17_SummaryFieldOrder ==
    LET block == SummaryBlock(out)
    IN  \A i, j \in DOMAIN block :
            (i < j /\ FieldRank(block[i]) > 0 /\ FieldRank(block[j]) > 0)
                => FieldRank(block[i]) < FieldRank(block[j])

IsModelLine(line) == Len(line) >= 3 /\ line[1] = EMOJI.metadata /\ line[3] = "Model: "

RECURSIVE LastModel(_)
\* The last identifier of a sequence that is present, Null when none is
LastModel(models) ==
    IF Len(models) = 0 THEN Null
    ELSE IF Truthy(models[Len(models)]) THEN models[Len(models)]
    ELSE LastModel(SubSeq(models, 1, Len(models) - 1))

\* The model identifiers the session showed, in order
ModelsObserved ==
    IF adapter # "opencode" THEN modelsSeen
    ELSE IF data = NullObject THEN <<>>
    ELSE [i \in 1..Len(data.messages) |-> data.messages[i].modelID]

\* C18: when a summary is written for the fragmented source or for source B
\* and the session showed a model identifier, the summary block has one
\* active-model line and it names the last identifier shown; the summary of
\* source A has no such line.
C18_SummaryNamesActiveModel ==
    LET lines == SelectSeq(SummaryBlock(out), IsModelLine)
        last == LastModel(ModelsObserved)
    IN  /\ adapter = "claude" => lines = <<>>
        /\ (adapter # "claude" /\ CountKind(out, "summary") > 0 /\ last # Null)
               => lines = << <<EMOJI.metadata, " ", "Model: ", last>> >>

SecondsPerHour == SecondsPerMinute * MinutesPerHour

\* The rendering of the time from start to end, <<>> when there is none
Elapsed(start, end) ==
    IF ~Truthy(start) \/ ~Truthy(end) THEN <<>>
    ELSE IF GetTime(start) < 0 \/ GetTime(end) < 0 THEN <<>>
    ELSE IF GetTime(end) < GetTime(start) THEN <<>>
    ELSE LET s == (GetTime(end) - GetTime(start)) \div MsPerSecond
         IN  IF s >= SecondsPerHour
             THEN <<ToString(s \div SecondsPerHour), "h ",
                    ToString((s % SecondsPerHour) \div SecondsPerMinute), "m">>
             ELSE IF s >= SecondsPerMinute
             THEN <<ToString(s \div SecondsPerMinute), "m">>
             ELSE <<ToString(s), "s">>

\* C19: the summary of source A renders the time from the first record's
\* timestamp to the last record's as hours and minutes from one hour on, as
\* minutes from one minute on, as seconds below; when the last is earlier
\* than the first, or either is absent or is not a date, there is no
\* duration line and the rest of the summary is written all the same.
C19_DurationRendering ==
    (adapter = "claude" /\ pc = "finalized" /\ out # <<>>) =>
        LET e == Elapsed(firstRecord.timestamp, lastSeen)
        IN  /\ LabelLines(out, "Duration: ") =
                  IF e = <<>> THEN <<>>
                  ELSE << <<EMOJI.metadata, " ", "Duration: ">> \o e >>
            /\ CountKind(out, "summary") = 1
            /\ Len(LabelLines(out, "Messages: ")) = 1
            /\ Len(LabelLines(out, "Tool calls: ")) = 1
            /\ Len(LabelLines(out, "Tokens: ")) = 1

C19_Witness ==
    /\ adapter = "claude"
    /\ pc = "finalized"
    /\ firstRecord # NoRecord
    /\ firstRecord.timestamp = "2025-01-01T00:00:00Z"
    /\ lastSeen = "2025-01-01T01:04:00Z"
    /\ LabelLines(out, "Duration: ") =
           << <<EMOJI.metadata, " ", "Duration: ", "1", "h ", "4", "m">> >>

\* The file of the round trip: envelope, user text, request, result, answer
RoundTripFile == FileRecords

\* C20: the file whose records are the envelope, the user text "find
\* config", the request Glob pattern "**/config.*", its successful result
\* and the assistant text "Found it" is written as exactly the metadata
\* block, a blank line, the user line, the success line of the Glob, the
\* assistant line, a blank line and the summary block with 1 user and 1
\* assistant message and 1 tool call, none failed: the result-only record is
\* no user message and the request-only record is no assistant message.
C20_RoundTrip ==
    (pc = "written" /\ inputLines = RoundTripFile) =>
        /\ Lines(out) =
              << <<EMOJI.metadata, " ", "Session: ", "s1">>,
                 <<EMOJI.metadata, " ", "Project: ", "/proj">>,
                 <<EMOJI.metadata, " ", "Started: ", "2025-01-01T00:00:45Z">>,
                 <<EMOJI.metadata, " ", "Version: ", "1.0.0">>,
                 <<EMOJI.metadata, " ", "Branch: ", "main">>,
                 <<>>,
                 <<EMOJI.user, " ", "find config">>,
                 <<EMOJI.toolSuccess, " ", "Glob", ": ", "pattern=\"",
                   "**/config.*", "\"">>,
                 <<EMOJI.assistant, " ", "Found it">>,
                 <<>>,
                 <<EMOJI.metadata, " ", "--- Summary ---">>,
                 <<EMOJI.metadata, " ", "Duration: ", "0", "s">>,
                 <<EMOJI.metadata, " ", "Messages: ", "1", " user, ", "1",
                   " assistant">>,
                 <<EMOJI.metadata, " ", "Tool calls: ", "1", " total, ", "0",
                   " failed">>,
                 <<EMOJI.metadata, " ", "Tokens: ", "0", " in, ", "0", " out">> >>
        /\ stats.userMessages = 1
        /\ stats.assistantMessages = 1

C20_Witness ==
    /\ pc = "written"
    /\ inputLines = RoundTripFile
    /\ nParsed = Len(RoundTripFile)
    /\ textsSeen = 2
    /\ answered = 1
    /\ emitted["toolSuccess"] = 1

-----------------------------------------------------------------------------
(* The fragmented source: order of replay *)

\* The kinds of the turn and outcome lines of a text, in the text's order
IsReplayKind(kind) ==
    kind \in {"user", "assistant", "toolSuccess", "toolFailure"}
ReplayKinds(text) == SelectSeq(KindsOf(text), IsReplayKind)

\* The place of a line in a text, 0 when the text has no such line
LineIndex(text, line) ==
    LET ls == Lines(text)
    IN  IF \E i \in DOMAIN ls : ls[i] = line
        THEN CHOOSE i \in DOMAIN ls : ls[i] = line ELSE 0

\* The loaded session is a user message of the one text part "a" followed
\* by a later assistant message of the text part "c" and a tool part that
\* exited with 0
IsUserThenAssistant ==
    /\ data # NullObject
    /\ Len(data.messages) = 2
    /\ \E u, a \in DOMAIN data.messages :
        /\ data.messages[u].role = "user"
        /\ data.messages[a].role = "assistant"
        /\ data.messages[u].time.created < data.messages[a].time.created
        /\ data.messages[u].id \in DOMAIN data.parts
        /\ data.parts[data.messages[u].id] = <<TextPart(<<"a">>, Undefined)>>
        /\ data.messages[a].id \in DOMAIN data.parts
        /\ Len(data.parts[data.messages[a].id]) = 2
        /\ data.parts[data.messages[a].id][1] = TextPart(<<"c">>, Undefined)
        /\ data.parts[data.messages[a].id][2].type = "tool"
        /\ ~ToolIsError(data.parts[data.messages[a].id][2].state)

\* C21: the messages of a loaded session are replayed in ascending order of
\* their creation time, whatever the order in which the directory listed
\* them, and the parts of a message in the order they were loaded: a user
\* message of one text part and a later assistant message of one text part
\* and one tool part that exited with 0 give the user line, then the
\* assistant line, then one success line, and no other turn or outcome.
C21_ReplayInCreationOrder ==
    /\ data # NullObject =>
          \A i, j \in DOMAIN data.messages :
              i < j => data.messages[i].time.created
                          <= data.messages[j].time.created
    /\ (pc = "written" /\ IsUserThenAssistant) =>
          /\ ReplayKinds(out) = <<"user", "assistant", "toolSuccess">>
          /\ LineIndex(out, <<EMOJI.user, " ", "a">>) > 0
          /\ LineIndex(out, <<EMOJI.user, " ", "a">>)
                < LineIndex(out, <<EMOJI.assistant, " ", "c">>)
          /\ LineIndex(out, <<EMOJI.assistant, " ", "c">>)
                < LineIndex(out, <<EMOJI.toolSuccess, " ", "edit", ": ", "/c">>)

\* The directory listed the assistant message before the user message
C21_Witness ==
    /\ pc = "written"
    /\ IsUserThenAssistant
    /\ data.messages[1].id = "msg_2"
    /\ data.messages[1].role = "user"
    /\ emitted["toolSuccess"] = 1

-----------------------------------------------------------------------------
(* The fragmented source: outcome of a tool part *)

\* The exit field of a tool part's state, Undefined when there is none
ExitOf(part) ==
    IF part.state.metadata = NoObject THEN Undefined
    ELSE part.state.metadata.exit

\* The field holds a number
IsNumericExit(exit) == exit \notin {Undefined, Null}

\* The tool parts with a state among the parts of the assistant messages
IsStatedToolPart(part) == part.type = "tool" /\ part.state # NoObject
StatedToolParts(d, i) ==
    IF d.messages[i].role = "assistant" /\ d.messages[i].id \in DOMAIN d.parts
    THEN SelectSeq(d.parts[d.messages[i].id], IsStatedToolPart)
    ELSE <<>>

RECURSIVE AllStatedToolParts(_, _)
AllStatedToolParts(d, n) ==
    IF n = 0 THEN <<>>
    ELSE AllStatedToolParts(d, n - 1) \o StatedToolParts(d, n)

\* A tool part fails when its exit field holds a number other than zero
ExitedNonZero(part) == IsNumericExit(ExitOf(part)) /\ ExitOf(part) # "0"

\* C22: of the tool parts with a state in a written session, those whose
\* exit field holds a number other than zero are written as failures and
\* counted as failed, those with no numeric exit field or with exit zero are
\* written as successes, and each of them counts as one tool call.
C22_FailureIsNonZeroExit ==
    pc = "written" =>
        LET tools == AllStatedToolParts(data, Len(data.messages))
            failing == Len(SelectSeq(tools, ExitedNonZero))
        IN  /\ stats.toolCalls = Len(tools)
            /\ stats.toolErrors = failing
            /\ emitted["toolFailure"] = failing
            /\ emitted["toolSuccess"] = Len(tools) - failing

-----------------------------------------------------------------------------
(* The fragmented source: user text parts *)

\* The text parts of the user messages of a session, in replay order
IsTextPart(part) == part.type = "text" /\ NonEmpty(part.text)
UserTextParts(d, i) ==
    IF d.messages[i].role = "user" /\ d.messages[i].id \in DOMAIN d.parts
    THEN SelectSeq(d.parts[d.messages[i].id], IsTextPart)
    ELSE <<>>

RECURSIVE AllUserTextParts(_, _)
AllUserTextParts(d, n) ==
    IF n = 0 THEN <<>>
    ELSE AllUserTextParts(d, n - 1) \o UserTextParts(d, n)

\* The part is marked synthetic or begins with one of the two markers
IsInjected(part) ==
    \/ part.synthetic = JsTrue
    \/ (Len(part.text) > 0 /\ part.text[1] \in {"<file>", "Called the"})

IsAuthored(part) == ~IsInjected(part)
IsBlankPart(part) == \A i \in DOMAIN part.text : IsSpace(part.text[i])
IsAuthoredText(part) == IsAuthored(part) /\ ~IsBlankPart(part)

\* The user lines of a text, in the text's order
IsUserLine(line) == LineKind(line) = "user"
UserLines(text) == SelectSeq(Lines(text), IsUserLine)

\* C23 as stated: every text part of a user message that is neither marked
\* synthetic nor begins with "<file>" or "Called the" is one user line and
\* one counted user message, and the other parts are none.
C23_AuthoredPartsAreUserTurns ==
    pc = "written" =>
        LET authored == SelectSeq(AllUserTextParts(data, Len(data.messages)),
                                  IsAuthored)
        IN  /\ Len(UserLines(out)) = Len(authored)
            /\ stats.userMessages = Len(authored)

\* C23: every text part of a user message that is neither marked synthetic
\* nor begins with "<file>" or "Called the", and whose text is not blank, is
\* one user line of its trimmed text, in replay order, and one counted user
\* message; the parts that are synthetic or begin with a marker give no
\* line and no count.
C23_AuthoredTextIsUserTurn ==
    pc = "written" =>
        LET authored == SelectSeq(AllUserTextParts(data, Len(data.messages)),
                                  IsAuthoredText)
        IN  /\ Len(UserLines(out)) = Len(authored)
            /\ \A i \in DOMAIN authored :
                   UserLines(out)[i] = <<EMOJI.user, " ">> \o Trim(authored[i].text)
            /\ stats.userMessages = Len(authored)

\* One user message's text was written and another's parts, one synthetic
\* and one a file wrapper, were not
C23_Witness ==
    /\ pc = "written"
    /\ stats.userMessages = 1
    /\ UserLines(out) = << <<EMOJI.user, " ", "a">> >>
    /\ LET parts == AllUserTextParts(data, Len(data.messages))
       IN  /\ \E i \in DOMAIN parts : parts[i].synthetic = JsTrue
           /\ \E i \in DOMAIN parts : parts[i].text[1] = "<file>"
           /\ \E i \in DOMAIN parts : IsAuthoredText(parts[i])

-----------------------------------------------------------------------------
(* The fragmented source: storage that is missing or unreadable *)

\* C24: a session whose session file, one of whose message files or one of
\* whose part files is missing or cannot be read is skipped: loadSession
\* gives no data for it and no transcript is written for it, and the batch
\* goes on to the next session.
C24_UnavailableStorageSkipsSession ==
    (pc # "open" /\ unavailable # {}) =>
        /\ data = NullObject
        /\ pc = "skipped"
        /\ out = <<>>

-----------------------------------------------------------------------------
(* Two sessions, each with a parser object of its own, whose parse() and
   finalize() calls interleave.  A call runs to its end before the next one
   starts: the methods are synchronous *)

MaxCalls == 2

Instances == {1, 2}

\* A Map constructed for every parser object alike
NewMapShared(i) == 1

\* private pendingTools = new Map() / private pendingFunctions = new Map():
\* the field initialiser runs at each construction; the address of the Map
\* built for the i-th object
NewMap(i) ==
    i

\* new TranscriptParser() / new CodexTranscriptParser(); the object's sets
\* and records are values here, its Map is held in the heap
NewInstance(kind, i) ==
    [kind |-> kind, pending |-> NewMap(i), metadata |-> NullObject,
     metadataEmitted |-> FALSE, currentModel |-> Null,
     stats |-> IF kind = "codex" THEN InitCodexStats ELSE InitStats,
     fed |-> <<>>, output |-> <<>>, finalized |-> FALSE]

\* `this` in a method called on an object
ThisOf(inst, map) ==
    IF inst.kind = "codex"
    THEN [pendingFunctions |-> map, metadata |-> inst.metadata,
          metadataEmitted |-> inst.metadataEmitted,
          currentModel |-> inst.currentModel, stats |-> inst.stats]
    ELSE [pendingTools |-> map, metadata |-> inst.metadata,
          metadataEmitted |-> inst.metadataEmitted,
          currentModel |-> inst.currentModel, stats |-> inst.stats]
This(i) == ThisOf(instances[i], heap[instances[i].pending])

\* The records the two sessions draw from; both use the call ID call_1
SessionRecords == FileRecords
CodexSessionRecords ==
    << CodexRecord("2025-01-01T00:00:45Z", "event_msg",
                   [type |-> "user_message", message |-> <<"a">>]),
       CodexRecord("2025-01-01T00:00:45Z", "response_item",
                   ResponseItem("function_call", Undefined, NoContent, "shell",
                                ShellString(<<"ls">>), "call_1", <<>>)),
       CodexRecord("2025-01-01T00:00:45Z", "response_item",
                   ResponseItem("function_call_output", Undefined, NoContent,
                                Undefined, NoObject, "call_1",
                                <<"{", "\"exit_code\":", "0", "}">>)) >>

InitSessions(ids, kindsOf) ==
    /\ adapter = "claude"
    /\ pc = "open"
    /\ nParsed = 0
    /\ pendingTools = EmptyMap
    /\ pendingFunctions = EmptyMap
    /\ metadata = NullObject
    /\ metadataEmitted = FALSE
    /\ currentModel = Null
    /\ stats = InitStats
    /\ data = NullObject
    /\ InitHistory
    /\ inputLines = <<>>
    /\ unavailable = {}
    /\ stdin = NoInput
    /\ buffer = <<>>
    /\ \E kinds \in [ids -> kindsOf] :
          instances = [i \in ids |-> NewInstance(kinds[i], i)]
    /\ heap = [a \in {NewMap(i) : i \in ids} |-> EmptyMap]

InitTwoSessions == InitSessions(Instances, {"claude", "codex"})

\* The object and its Map after a call on the i-th object returned r
Called(i, record, r) ==
    /\ heap' = [heap EXCEPT ![instances[i].pending] =
                   IF instances[i].kind = "codex" THEN r.self.pendingFunctions
                   ELSE r.self.pendingTools]
    /\ instances' = [instances EXCEPT ![i] =
                        [@ EXCEPT !.metadata = r.self.metadata,
                                  !.metadataEmitted = r.self.metadataEmitted,
                                  !.currentModel = r.self.currentModel,
                                  !.stats = r.self.stats,
                                  !.fed = Append(@, record),
                                  !.output = @ \o r.output]]

CanCallUpTo(i, kind, n) ==
    /\ instances[i].kind = kind
    /\ ~instances[i].finalized
    /\ Len(instances[i].fed) < n

CanCall(i, kind) == CanCallUpTo(i, kind, MaxCalls)

\* parser.parse(line) on the i-th object, of source A, the line being one of
\* the given records
ParseUpTo(i, records, n) ==
    /\ CanCallUpTo(i, "claude", n)
    /\ \E k \in DOMAIN records :
          Called(i, records[k], parse(This(i), records[k]))
    /\ UNCHANGED <<adapter, pc, nParsed, pendingTools, pendingFunctions,
                   metadata, metadataEmitted, currentModel, stats, data, out,
                   emitted, open, answered, closed, stray, repeats, textsSeen,
                   firstRecord, failed, modelsSeen, ignored, written,
                   lastSeen, inputLines, unavailable, stdin, buffer>>

ParseFrom(i, records) == ParseUpTo(i, records, MaxCalls)
ParseIn(i) == ParseFrom(i, SessionRecords)

\* parser.parse(line) on the i-th object, of source B, the line being one of
\* the given records
CodexParseUpTo(i, records, n) ==
    /\ CanCallUpTo(i, "codex", n)
    /\ \E k \in DOMAIN records :
          Called(i, records[k], codexParse(This(i), records[k]))
    /\ UNCHANGED <<adapter, pc, nParsed, pendingTools, pendingFunctions,
                   metadata, metadataEmitted, currentModel, stats, data, out,
                   emitted, open, answered, closed, stray, repeats, textsSeen,
                   firstRecord, failed, modelsSeen, ignored, written,
                   lastSeen, inputLines, unavailable, stdin, buffer>>

CodexParseIn(i) == CodexParseUpTo(i, CodexSessionRecords, MaxCalls)

\* parser.finalize() on the i-th object
FinalizeIn(i) ==
    /\ ~instances[i].finalized
    /\ instances' = [instances EXCEPT ![i] =
                        [@ EXCEPT !.finalized = TRUE,
                                  !.output = @ \o (IF instances[i].kind = "codex"
                                                   THEN codexFinalize(This(i))
                                                   ELSE finalize(This(i)))]]
    /\ UNCHANGED <<adapter, pc, nParsed, pendingTools, pendingFunctions,
                   metadata, metadataEmitted, currentModel, stats, data, out,
                   emitted, open, answered, closed, stray, repeats, textsSeen,
                   firstRecord, failed, modelsSeen, ignored, written,
                   lastSeen, inputLines, unavailable, heap, stdin, buffer>>

NextTwoSessions ==
    \E i \in Instances :
        \/ ParseIn(i)
        \/ CodexParseIn(i)
        \/ FinalizeIn(i)

\* Two sessions whose calls interleave in every order
SpecTwoSessions == InitTwoSessions /\ [][NextTwoSessions]_vars

\* The session run alone: a parser of its own given the session's records
\* in order and then, when the session was finalized, finalize()
JoinedCall(acc, r) == [self |-> r.self, output |-> acc.output \o r.output]
CallAlone(kind, acc, record) ==
    JoinedCall(acc, IF kind = "codex" THEN codexParse(acc.self, record)
                    ELSE parse(acc.self, record))

RECURSIVE ParseAlone(_, _, _)
ParseAlone(kind, acc, records) ==
    IF Len(records) = 0 THEN acc
    ELSE ParseAlone(kind, CallAlone(kind, acc, Head(records)), Tail(records))

RunAlone(inst) ==
    LET parsed == ParseAlone(inst.kind,
                             [self |-> ThisOf(NewInstance(inst.kind, 0), EmptyMap),
                              output |-> <<>>],
                             inst.fed)
    IN  [self |-> parsed.self,
         output |-> IF ~inst.finalized THEN parsed.output
                    ELSE parsed.output
                         \o (IF inst.kind = "codex" THEN codexFinalize(parsed.self)
                             ELSE finalize(parsed.self))]

\* C25: of two sessions whose parse() and finalize() calls interleave in any
\* order, each has returned exactly the text its records give when the
\* session runs alone, and holds exactly the pending requests, statistics
\* and model it holds when run alone: a result in one session never answers
\* a request of the other, though both use the same call ID.
C25_SessionsIndependent ==
    instances # <<>> =>
        \A i \in Instances :
            LET alone == RunAlone(instances[i])
            IN  /\ instances[i].output = alone.output
                /\ This(i) = alone.self

\* The first session has requested call_1 and the second was given a result
\* for call_1 that it never requested: the request is still pending in the
\* first and the second has written no outcome
C25_Witness ==
    /\ instances # <<>>
    /\ instances[1].kind = "claude"
    /\ instances[2].kind = "claude"
    /\ instances[1].fed = <<SessionRecords[3]>>
    /\ instances[2].fed = <<SessionRecords[4]>>
    /\ "call_1" \in DOMAIN heap[instances[1].pending]
    /\ CountKind(instances[2].output, "toolSuccess") = 0
    /\ instances[2].stats.toolCalls = 0

-----------------------------------------------------------------------------
(* Source A: the content of a user record, a string or a list of fragments *)

UserRecord(content) ==
    Record(Envelope1, "user", Undefined, UserMessage(content), <<>>)

\* A request for call_1, texts in both forms, and results for call_1 alone
\* and beside texts
UserContentRecords ==
    << FileRecords[3],
       UserRecord(StringContent(<<"a">>)),
       UserRecord(ArrayContent(<<TextBlock(<<"a">>)>>)),
       UserRecord(StringContent(<<"<", "a">>)),
       UserRecord(ArrayContent(<<TextBlock(<<"<", "a">>)>>)),
       UserRecord(StringContent(<<" ", "b", " ">>)),
       UserRecord(ArrayContent(<<TextBlock(<<" ", "b", " ">>)>>)),
       UserRecord(StringContent(<<" ">>)),
       UserRecord(ArrayContent(<<TextBlock(<<" ">>)>>)),
       UserRecord(ArrayContent(<<ToolResultBlock("call_1", Undefined)>>)),
       UserRecord(ArrayContent(<<TextBlock(<<"<", "a">>),
                                 ToolResultBlock("call_1", Undefined)>>)),
       UserRecord(ArrayContent(<<TextBlock(<<"a">>),
                                 ToolResultBlock("call_1", Undefined)>>)),
       UserRecord(ArrayContent(<<TextBlock(<<"<", "a">>),
                                 TextBlock(<<"b">>)>>)) >>

InitUserContent == InitSessions({1}, {"claude"})

ParseUserContent == ParseFrom(1, UserContentRecords)
FinalizeUserContent == FinalizeIn(1)

NextUserContent ==
    \/ ParseUserContent
    \/ FinalizeUserContent

\* One session of source A given user records of every form
SpecUserContent == InitUserContent /\ [][NextUserContent]_vars

\* A content as a list of fragments: a string is the list of one text
Fragments(content) ==
    IF content.kind = "string" THEN <<TextBlock(content.text)>>
    ELSE content.blocks

IsUserRecord(record) ==
    /\ record.type = "user"
    /\ record.isMeta \notin {JsTrue}
    /\ record.message.role = "user"

\* The record with its content given as a list of fragments
AsFragments(record) ==
    IF IsUserRecord(record)
    THEN [record EXCEPT
             !.message = UserMessage(ArrayContent(Fragments(@.content)))]
    ELSE record

\* The text fragments of a user record that do not begin with "<"
IsOpenText(block) ==
    block.type = "text" /\ ~(Len(block.text) > 0 /\ block.text[1] = "<")
OpenTexts(record) ==
    IF IsUserRecord(record)
    THEN SelectSeq(Fragments(record.message.content), IsOpenText)
    ELSE <<>>

\* The user lines of texts: one line for each text that is not blank
RECURSIVE UserLinesOf(_)
UserLinesOf(texts) ==
    IF Len(texts) = 0 THEN <<>>
    ELSE (IF \A k \in DOMAIN Head(texts).text : IsSpace(Head(texts).text[k])
          THEN <<>>
          ELSE << <<EMOJI.user, " ">> \o Trim(Head(texts).text) >>)
         \o UserLinesOf(Tail(texts))

RECURSIVE AllOpenTexts(_)
AllOpenTexts(records) ==
    IF Len(records) = 0 THEN <<>>
    ELSE OpenTexts(Head(records)) \o AllOpenTexts(Tail(records))

HasOpenText(record) == Len(OpenTexts(record)) > 0

\* C26: the text of a user record of source A is treated alike as a bare
\* string and as a list of fragments: a session gives the same text and ends
\* in the same state when every string is given as the list of one text; a
\* text that begins with "<" gives no line and no count; a tool result is
\* never a user line; and the user count is the number of records that
\* carry a text not beginning with "<", so that a record of results only or
\* of suppressed text only is not counted.
C26_UserTextNormalised ==
    instances # <<>> =>
        LET inst == instances[1]
            listed == RunAlone([inst EXCEPT
                                   !.fed = [k \in DOMAIN inst.fed |->
                                               AsFragments(inst.fed[k])]])
        IN  /\ UserLines(inst.output) = UserLinesOf(AllOpenTexts(inst.fed))
            /\ inst.stats.userMessages = Len(SelectSeq(inst.fed, HasOpenText))
            /\ inst.output = listed.output
            /\ This(1) = listed.self

\* After the request call_1, a record holding a text that begins with "<"
\* and the result of call_1: the outcome is written, no user line is, and
\* no user message is counted
C26_Witness ==
    /\ instances # <<>>
    /\ instances[1].fed = <<UserContentRecords[1], UserContentRecords[11]>>
    /\ instances[1].stats.userMessages = 0
    /\ instances[1].stats.toolCalls = 1
    /\ CountKind(instances[1].output, "toolSuccess") = 1
    /\ CountKind(instances[1].output, "user") = 0

-----------------------------------------------------------------------------
(* Source A: a session without turns *)

\* C27: a session in which no user and no assistant turn was observed gives
\* no output: the texts returned by its parse() calls and by finalize() are
\* all empty, and the batch driver writes no file for it.
C27_EmptySessionNoOutput ==
    (/\ pc \in {"written", "skipped"}
     /\ stats.userMessages = 0 /\ stats.assistantMessages = 0
     /\ TurnLines = 0)
        => /\ out = <<>>
           /\ pc = "skipped"

-----------------------------------------------------------------------------
(* Sources A and B: the pending requests *)

\* C28: after any sequence of records the call IDs held in the store of
\* pending requests are exactly those requested and not answered since, so
\* the store is never larger than the number of unanswered requests, and a
\* call ID that was answered and not requested again is not in the store.
C28_StoreHoldsOpenRequests ==
    adapter \in {"claude", "codex"} =>
        /\ DOMAIN Store = open
        /\ Cardinality(DOMAIN Store) <= Cardinality(open)
        /\ \A id \in closed : ~MapHas(Store, id)

\* One request was answered and another is still pending
C28_Witness ==
    /\ adapter = "codex"
    /\ answered = 1
    /\ closed = {"call_1"}
    /\ open = {"call_2"}
    /\ DOMAIN pendingFunctions = {"call_2"}
    /\ OutcomeLines = 1

-----------------------------------------------------------------------------
(* Sources A and B: a call ID requested again while it is pending *)

MaxReuseCalls == 3

\* Two requests that use call_1, a request that uses call_2, and a result
\* for call_1
ReuseRecords ==
    << Record(Envelope1, "assistant", Undefined,
              AssistantMessage(Undefined, NoObject,
                               <<ToolUseBlock("call_1", ReadA)>>), <<>>),
       Record(Envelope1, "assistant", Undefined,
              AssistantMessage(Undefined, NoObject,
                               <<ToolUseBlock("call_1", WriteA)>>), <<>>),
       Record(Envelope1, "assistant", Undefined,
              AssistantMessage(Undefined, NoObject,
                               <<ToolUseBlock("call_2", EditA)>>), <<>>),
       UserRecord(ArrayContent(<<ToolResultBlock("call_1", Undefined)>>)) >>
CodexReuseRecords ==
    << CodexRecord("2025-01-01T00:00:45Z", "response_item",
                   ResponseItem("function_call", Undefined, NoContent, "shell",
                                ShellString(<<"cat", " ", "/a">>), "call_1",
                                <<>>)),
       CodexRecord("2025-01-01T00:00:45Z", "response_item",
                   ResponseItem("function_call", Undefined, NoContent, "shell",
                                ShellString(<<"ls">>), "call_1", <<>>)),
       CodexRecord("2025-01-01T00:00:45Z", "response_item",
                   ResponseItem("function_call_output", Undefined, NoContent,
                                Undefined, NoObject, "call_1",
                                <<"{", "\"exit_code\":", "0", "}">>)) >>

InitReuse == InitSessions({1}, {"claude", "codex"})

ParseReuse == ParseUpTo(1, ReuseRecords, MaxReuseCalls)
CodexParseReuse == CodexParseUpTo(1, CodexReuseRecords, MaxReuseCalls)
FinalizeReuse == FinalizeIn(1)

NextReuse ==
    \/ ParseReuse
    \/ CodexParseReuse
    \/ FinalizeReuse

\* One session of source A or B whose requests reuse a call ID
SpecReuse == InitReuse /\ [][NextReuse]_vars

\* What the records of a session say, read without the parser: the request
\* a record makes, the result it carries
IsRequest(kind, record) ==
    IF kind = "codex" THEN record.payload.type = "function_call"
    ELSE record.type = "assistant"
RequestId(kind, record) ==
    IF kind = "codex" THEN record.payload.call_id
    ELSE record.message.content.blocks[1].id
RequestTool(kind, record) ==
    IF kind = "codex"
    THEN [name |-> record.payload.name, arguments |-> record.payload.arguments]
    ELSE [name |-> record.message.content.blocks[1].name,
          input |-> record.message.content.blocks[1].input]
ResultId(kind, record) ==
    IF kind = "codex" THEN record.payload.call_id
    ELSE record.message.content.blocks[1].tool_use_id

\* The outcomes due after the records: each result is answered by the
\* latest request made for its call ID since the ID's last result
RECURSIVE OutcomesDue(_, _, _)
OutcomesDue(kind, records, acc) ==
    IF Len(records) = 0 THEN acc
    ELSE LET record == Head(records)
             next ==
                 IF IsRequest(kind, record)
                 THEN [acc EXCEPT
                          !.latest = MapSet(@, RequestId(kind, record),
                                            RequestTool(kind, record))]
                 ELSE IF MapHas(acc.latest, ResultId(kind, record))
                 THEN [acc EXCEPT
                          !.latest = MapDelete(@, ResultId(kind, record)),
                          !.tools = Append(@, acc.latest[ResultId(kind, record)])]
                 ELSE acc
         IN  OutcomesDue(kind, Tail(records), next)

OutcomeLineOf(kind, tool) ==
    LET line == IF kind = "codex" THEN formatFunctionCall(tool, FALSE)
                ELSE formatToolCall(tool, FALSE)
    IN  SubSeq(line, 1, Len(line) - 1)

IsOutcomeLine(line) == LineKind(line) \in {"toolSuccess", "toolFailure"}

\* C29: a request that reuses a call ID still pending replaces the pending
\* one: each result is written as one outcome with the name and arguments
\* of the latest request for its call ID, the replaced request gives no
\* outcome, no count and no file entry, and nothing is written when the
\* second request arrives.
C29_LatestRequestWins ==
    instances # <<>> =>
        LET inst == instances[1]
            due == OutcomesDue(inst.kind, inst.fed,
                               [latest |-> EmptyMap, tools |-> <<>>]).tools
            outcomes == SelectSeq(Lines(inst.output), IsOutcomeLine)
        IN  /\ Len(outcomes) = Len(due)
            /\ \A k \in DOMAIN due :
                   outcomes[k] = OutcomeLineOf(inst.kind, due[k])
            /\ inst.kind = "claude" =>
                  /\ inst.stats.toolCalls = Len(due)
                  /\ inst.stats.filesRead =
                        {due[k].input.file_path :
                            k \in {j \in DOMAIN due : due[j].name = "Read"}}
                  /\ inst.stats.filesWritten =
                        {due[k].input.file_path :
                            k \in {j \in DOMAIN due : due[j].name = "Write"}}
            /\ inst.kind = "codex" => inst.stats.functionCalls = Len(due)

\* Read /a was requested as call_1, then Write /a as call_1, then call_1 was
\* answered: one outcome, of the Write
C29_Witness ==
    /\ instances # <<>>
    /\ instances[1].fed = <<ReuseRecords[1], ReuseRecords[2], ReuseRecords[4]>>
    /\ instances[1].stats.toolCalls = 1
    /\ instances[1].stats.filesRead = {}
    /\ instances[1].stats.filesWritten = {"/a"}
    /\ CountKind(instances[1].output, "toolSuccess") = 1
    /\ heap[instances[1].pending] = EmptyMap

-----------------------------------------------------------------------------
(* Sources A and B: the first and the last timestamp *)

\* The start timestamp the session holds, Null before it holds one
Started == IF metadata = NullObject THEN Null ELSE metadata.started

\* After a call that returned, the last timestamp is that of the record
\* just parsed, whatever the earlier ones were
LastIsLatestRecord ==
    pc' \in {"open", "finalized"} => stats'.lastTimestamp = lastSeen'

\* A start timestamp once held is kept
StartIsKept ==
    (metadata # NullObject /\ pc' # "thrown") => Started' = Started

\* In source A the start timestamp is that of the first record
StartIsFirstRecord ==
    (adapter = "claude" /\ metadata' # NullObject /\ pc' # "thrown")
        => Started' = firstRecord'.timestamp

\* The duration written is the time from the start to the last record parsed
DurationToLastRecord ==
    (pc' = "finalized" /\ out' # <<>>) =>
        LET e == Elapsed(Started', lastSeen')
        IN  LabelLines(out', "Duration: ") =
                IF e = <<>> THEN <<>>
                ELSE << <<EMOJI.metadata, " ", "Duration: ">> \o e >>

C30_Step ==
    /\ LastIsLatestRecord
    /\ StartIsKept
    /\ StartIsFirstRecord
    /\ DurationToLastRecord

\* C30: in both streaming adapters the last timestamp after any sequence of
\* parse() calls is the timestamp of the record parsed last, of whatever
\* type and whether or not it is earlier than one seen before; the start
\* timestamp stays that of the first record; and the duration written by
\* finalize() is the time from that start to the record parsed last.
C30_LastTimestampOverwritten == [][C30_Step]_vars

-----------------------------------------------------------------------------
(* Source A: the counters and the file-touch sets only grow *)

\* The eight counters of source A's statistics
CounterFields ==
    {"userMessages", "assistantMessages", "toolCalls", "toolErrors",
     "inputTokens", "outputTokens", "cacheCreationTokens", "cacheReadTokens"}

\* The three sets of distinct file paths
FileSetFields == {"filesRead", "filesWritten", "filesEdited"}

C31_Step ==
    adapter = "claude" =>
        /\ \A f \in CounterFields : stats[f] <= stats'[f]
        /\ \A f \in FileSetFields : stats[f] \subseteq stats'[f]

\* C31: in source A none of the counters of user turns, assistant turns,
\* tool calls, tool failures, input, output, cache-write and cache-read
\* tokens is lower after a call than before it, and each of the read,
\* written and edited sets contains after a call every path it held before,
\* whatever the records are and whether the call returns or throws.
C31_CountersNeverDecrease == [][C31_Step]_vars

\* Three calls have raised the token counters, the tool-call count and the
\* read set
C31_Witness ==
    /\ adapter = "claude"
    /\ nParsed = 3
    /\ stats.inputTokens = 600
    /\ stats.cacheReadTokens = 700
    /\ stats.toolCalls = 1
    /\ stats.filesRead = {"/a"}

-----------------------------------------------------------------------------
(* The fragmented source and source A: model changes *)

\* Messages that differ in their model identifier: absent, plain, one that
\* source A shortens, and the sentinel of source A
ModelIds ==
    {Undefined, "gpt-5", "claude-sonnet-4", "claude-opus-4-5-20251101",
     "<synthetic>"}
ModelMessageShapes ==
    {Message("assistant", 2000, 0, m, 0, 0, 0) : m \in ModelIds}
    \cup {Message("user", 2000, 0, Undefined, 0, 0, 0)}
ModelPartLists == {<<>>, <<TextPart(<<"a">>, Undefined)>>}

LoadModels == LoadFrom({Session(<<"t">>)}, ModelMessageShapes, ModelPartLists)

NextModels ==
    \/ LoadModels
    \/ FormatSession

\* One session of the fragmented source whose messages name several models
SpecModels == InitOpenCode /\ [][NextModels]_vars

\* The model identifiers of the first k messages, in order
ModelIdsUpTo(k) == [i \in 1..k |-> data.messages[i].modelID]

\* The model-change lines the fragmented source writes for the first k
\* messages
FragmentedModelLines(k) ==
    LabelLines(FormatMessages(SubSeq(data.messages, 1, k), data.parts,
                              [stats |-> InitOpenCodeStats, output |-> <<>>,
                               currentModel |-> Null]).output,
               "Model: ")

\* The model-change lines a parser of source A returns for assistant records
\* that carry the same identifiers in the same order
AssistantRecordOf(model) ==
    Record(Envelope1, "assistant", Undefined,
           AssistantMessage(model, NoObject, <<>>), <<>>)
StreamingModelLines(models) ==
    LabelLines(ParseAlone("claude",
                          [self |-> ThisOf(NewInstance("claude", 0), EmptyMap),
                           output |-> <<>>],
                          [i \in DOMAIN models |-> AssistantRecordOf(models[i])]
                         ).output,
               "Model: ")

\* C32: for the model identifiers of a session's messages in order, absent
\* ones and "<synthetic>" included, the fragmented source writes after each
\* message the same model-change lines as source A returns up to the
\* assistant record at the same position of a sequence of assistant records
\* carrying the same identifiers: the same lines, naming the model the same
\* way, at the same positions.
C32_ModelChangesAsInStreaming ==
    (adapter = "opencode" /\ pc \in {"written", "skipped"} /\ data # NullObject)
        => \A k \in 0..Len(data.messages) :
              FragmentedModelLines(k) = StreamingModelLines(ModelIdsUpTo(k))

-----------------------------------------------------------------------------
(* Source B: where user turns come from *)

\* The records of a session whose user input is logged as user_message
\* events and as user-role messages
UserMessageEvent(message) ==
    CodexRecord("2025-01-01T00:00:45Z", "event_msg",
                [type |-> "user_message", message |-> message])
UserInputRecords ==
    << UserMessageEvent(<<"a">>),
       CodexRecord("2025-01-01T00:00:45Z", "response_item",
                   ResponseItem("message", "user",
                                ArrayContent(<<InputText(<<"a">>)>>),
                                Undefined, NoObject, Undefined, <<>>)),
       UserMessageEvent(<<"<context>", " ">>),
       UserMessageEvent(<<"[@file](url)", " ">>),
       UserMessageEvent(<<"<context>", "[@file](url)", " ", "b", " ">>),
       UserMessageEvent(<<" ">>),
       CodexRecord("2025-01-01T00:00:45Z", "response_item",
                   ResponseItem("message", "user", NoContent, Undefined,
                                NoObject, Undefined, <<>>)),
       CodexRecord("2025-01-01T00:00:45Z", "response_item",
                   ResponseItem("message", "assistant",
                                ArrayContent(<<OutputText(<<"c">>)>>),
                                Undefined, NoObject, Undefined, <<>>)) >>

InitUserInput == InitSessions({1}, {"codex"})

ParseUserInput == CodexParseUpTo(1, UserInputRecords, MaxReuseCalls)

NextUserInput ==
    \/ ParseUserInput
    \/ FinalizeReuse

\* One session of source B on user input logged both ways
SpecUserInput == InitUserInput /\ [][NextUserInput]_vars

\* What the records say, read without the parser
IsUserMessageEvent(record) ==
    record.type = "event_msg" /\ record.payload.type = "user_message"
IsUserRoleMessage(record) ==
    /\ record.type = "response_item"
    /\ record.payload.type = "message"
    /\ record.payload.role = "user"
IsNotUserRoleMessage(record) == ~IsUserRoleMessage(record)

\* The text of a user_message event without its context blocks and file
\* references
StrippedText(record) ==
    [text |-> StripFileRefs(StripContext(record.payload.message))]

\* The stripped texts of the user_message events of a sequence, in order
RECURSIVE EventTexts(_)
EventTexts(records) ==
    IF Len(records) = 0 THEN <<>>
    ELSE (IF IsUserMessageEvent(Head(records))
          THEN <<StrippedText(Head(records))>> ELSE <<>>)
         \o EventTexts(Tail(records))

\* C33: in source B the user lines of a session are, in order, one line for
\* each user_message event whose text is not blank once its context blocks
\* and file references are removed, and the user count is their number; a
\* user-role message of a response_item record adds no line and no count,
\* and before finalize() the output is the one of the session without those
\* records, so an input logged both ways gives one user line and a user
\* count of one.
C33_UserTurnsFromEventsOnly ==
    instances # <<>> =>
        LET inst == instances[1]
            due == UserLinesOf(EventTexts(inst.fed))
            without == RunAlone([inst EXCEPT
                                    !.fed = SelectSeq(inst.fed,
                                                      IsNotUserRoleMessage)])
        IN  inst.kind = "codex" =>
                /\ UserLines(inst.output) = due
                /\ inst.stats.userMessages = Len(due)
                /\ ~inst.finalized => inst.output = without.output
                /\ inst.stats.userMessages = without.self.stats.userMessages
                /\ inst.stats.assistantMessages
                       = without.self.stats.assistantMessages

\* The input "a" logged as an event and as a user-role message, then an
\* event that is empty once its context block is removed: one user line
C33_Witness ==
    /\ instances # <<>>
    /\ instances[1].kind = "codex"
    /\ instances[1].fed = <<UserInputRecords[1], UserInputRecords[2],
                            UserInputRecords[3]>>
    /\ instances[1].stats.userMessages = 1
    /\ UserLines(instances[1].output) = << <<EMOJI.user, " ", "a">> >>
    /\ instances[1].output = <<EMOJI.user, " ", "a", "\n">>

-----------------------------------------------------------------------------
(* streamMode of all.ts and of the source-B entry point: the input read from
   stdin in chunks, cut into lines, each line given to parse() and its text
   written at once *)

MaxStreamLines == 2
MaxChunks == 3

\* The characters of an input text: the line feed, the space, and the two
\* halves of the text of a line that is not blank
LineFeed == [char |-> "\n"]
Space == [char |-> " "]
Half(k, line) == [char |-> "half", half |-> k, line |-> line]

\* The lines of the input of a parser of the kind: a user text, an assistant
\* text, a record on which parse() raises, a line of one space, an empty line
StreamLines(kind) ==
    IF kind = "codex"
    THEN { [text |-> <<"{", "}">>, parsed |-> UserInputRecords[1]],
           [text |-> <<"{", "}">>, parsed |-> UserInputRecords[8]],
           [text |-> <<"{", "}">>,
            parsed |-> CodexRecord("2025-01-01T00:00:45Z", "session_meta",
                                   NoObject)],
           [text |-> <<" ">>, parsed |-> NotJson],
           [text |-> <<>>, parsed |-> NotJson] }
    ELSE { [text |-> <<"{", "}">>, parsed |-> FileRecords[2]],
           [text |-> <<"{", "}">>, parsed |-> FileRecords[5]],
           [text |-> <<"{", "}">>,
            parsed |-> Record(Envelope1, "user", Undefined, NoObject, <<>>)],
           [text |-> <<" ">>, parsed |-> NotJson],
           [text |-> <<>>, parsed |-> NotJson] }

IsBlankText(s) == \A i \in DOMAIN s : s[i] = Space

\* The characters of a line
CharsOf(line) ==
    IF line.text = <<>> THEN <<>>
    ELSE IF line.parsed = NotJson THEN [i \in DOMAIN line.text |-> Space]
    ELSE <<Half(1, line), Half(2, line)>>

RECURSIVE TextOf(_, _)
\* The text of a file or a stream that holds the lines, with or without a
\* line feed after the last one
TextOf(lines, trailing) ==
    IF Len(lines) = 0 THEN <<>>
    ELSE CharsOf(Head(lines))
         \o (IF Len(lines) > 1 \/ trailing THEN <<LineFeed>> ELSE <<>>)
         \o TextOf(Tail(lines), trailing)

\* The chunks of a text cut after the characters at the given positions
Chunks(text, cuts) ==
    LET ends == {c \in cuts : c < Len(text)} \cup {Len(text)}
        Start(e) == IF \E c \in ends : c < e
                    THEN (CHOOSE c \in ends : c < e /\ \A d \in ends :
                                                 d < e => d <= c) + 1
                    ELSE 1
        Nth(k) == CHOOSE e \in ends : Cardinality({d \in ends : d <= e}) = k
    IN  IF Len(text) = 0 THEN <<>>
        ELSE [k \in 1..Cardinality(ends) |->
                 SubSeq(text, Start(Nth(k)), Nth(k))]

RECURSIVE Flatten(_)
Flatten(chunks) ==
    IF Len(chunks) = 0 THEN <<>> ELSE Head(chunks) \o Flatten(Tail(chunks))

RECURSIVE split(_)
\* s.split("\n")
split(s) ==
    IF \A i \in DOMAIN s : s[i] # LineFeed THEN <<s>>
    ELSE LET i == CHOOSE j \in DOMAIN s :
                      s[j] = LineFeed /\ \A k \in 1..(j - 1) : s[k] # LineFeed
         IN  <<SubSeq(s, 1, i - 1)>> \o split(SubSeq(s, i + 1, Len(s)))

\* A piece of text as the line parse() is given: the text of a whole line
\* parses to its record, spaces are blank, and a part of a line is not JSON
LineOf(piece) ==
    IF IsBlankText(piece) THEN [text |-> [i \in DOMAIN piece |-> " "],
                                parsed |-> NotJson]
    ELSE IF Len(piece) = 2 /\ piece = CharsOf(piece[1].line) THEN piece[1].line
    ELSE [text |-> <<"{">>, parsed |-> NotJson]

LinesOf(pieces) == [i \in DOMAIN pieces |-> LineOf(pieces[i])]

\* The run after a call of parse() on the line returned or raised r
ParsedLine(st, line, r) ==
    [st EXCEPT !.self = r.self,
               !.output = @ \o r.output,
               !.fed = Append(@, line),
               !.threw = r.threw]

RECURSIVE ParseLines(_, _, _)
\* for (const line of lines) { output = parser.parse(line); write(output) },
\* left at the first call that raises
ParseLines(kind, st, lines) ==
    IF Len(lines) = 0 \/ st.threw THEN st
    ELSE ParseLines(kind,
                    ParsedLine(st, Head(lines),
                               IF kind = "codex"
                               THEN codexParseLine(st.self, Head(lines))
                               ELSE parseLine(st.self, Head(lines))),
                    Tail(lines))

\* The body of the loop over the chunks: buffer += decode(chunk);
\* lines = buffer.split("\n"); buffer = lines.pop() || ""; the calls
ReadChunkOf(kind, st, chunk) ==
    LET pieces == split(st.buffer \o chunk)
    IN  [ParseLines(kind, st, LinesOf(SubSeq(pieces, 1, Len(pieces) - 1)))
            EXCEPT !.buffer = pieces[Len(pieces)]]

\* const summary = parser.finalize(); write(summary), not reached when a
\* call raised
Finalized(kind, parsed) ==
    IF parsed.threw THEN parsed
    ELSE [parsed EXCEPT !.finalized = TRUE,
                        !.output = @ \o (IF kind = "codex"
                                         THEN codexFinalize(parsed.self)
                                         ELSE finalize(parsed.self))]

\* After the loop: the rest of the buffer when it is not blank, then
\* finalize()
EndOf(kind, st) ==
    Finalized(kind, ParseLines(kind, st,
                               IF IsBlankText(st.buffer) THEN <<>>
                               ELSE <<LineOf(st.buffer)>>))

\* const parser = new ...Parser(); let buffer = ""
NewStream(kind) ==
    [self |-> ThisOf(NewInstance(kind, 0), EmptyMap), output |-> <<>>,
     fed |-> <<>>, threw |-> FALSE, finalized |-> FALSE, buffer |-> <<>>]

\* streamMode where it stands
StreamState ==
    [self |-> This(1), output |-> instances[1].output,
     fed |-> instances[1].fed, threw |-> FALSE, finalized |-> FALSE,
     buffer |-> buffer]

InitStream ==
    /\ adapter = "claude"
    /\ pc = "open"
    /\ nParsed = 0
    /\ pendingTools = EmptyMap
    /\ pendingFunctions = EmptyMap
    /\ metadata = NullObject
    /\ metadataEmitted = FALSE
    /\ currentModel = Null
    /\ stats = InitStats
    /\ data = NullObject
    /\ InitHistory
    /\ inputLines = <<>>
    /\ unavailable = {}
    /\ \E kind \in {"claude", "codex"} :
          /\ instances = <<NewInstance(kind, 1)>>
          /\ \E n \in 0..MaxStreamLines, trailing \in BOOLEAN :
             \E lines \in [1..n -> StreamLines(kind)] :
             \E cuts \in {c \in SUBSET (1..(3 * MaxStreamLines)) :
                             Cardinality(c) < MaxChunks} :
                 stdin = [chunks |-> Chunks(TextOf(lines, trailing), cuts),
                          read |-> 0]
    /\ heap = <<EmptyMap>>
    /\ buffer = <<>>

\* streamMode after the step that left it in st
Streamed(st) ==
    /\ heap' = [heap EXCEPT ![instances[1].pending] =
                   IF instances[1].kind = "codex"
                   THEN st.self.pendingFunctions ELSE st.self.pendingTools]
    /\ instances' = [instances EXCEPT ![1] =
                        [@ EXCEPT !.metadata = st.self.metadata,
                                  !.metadataEmitted = st.self.metadataEmitted,
                                  !.currentModel = st.self.currentModel,
                                  !.stats = st.self.stats,
                                  !.fed = st.fed,
                                  !.output = st.output,
                                  !.finalized = st.finalized]]
    /\ buffer' = st.buffer
    /\ pc' = IF st.threw THEN "thrown"
             ELSE IF st.finalized THEN "finalized" ELSE pc

\* for await (const chunk of Bun.stdin.stream()) { ... }, one chunk
ReadChunk ==
    /\ pc = "open" /\ stdin.read < Len(stdin.chunks)
    /\ Streamed(ReadChunkOf(instances[1].kind, StreamState,
                            stdin.chunks[stdin.read + 1]))
    /\ stdin' = [stdin EXCEPT !.read = @ + 1]
    /\ UNCHANGED <<adapter, nParsed, pendingTools, pendingFunctions,
                   metadata, metadataEmitted, currentModel, stats, data, out,
                   emitted, open, answered, closed, stray, repeats, textsSeen,
                   firstRecord, failed, modelsSeen, ignored, written,
                   lastSeen, inputLines, unavailable>>

\* The end of the stream: the remaining buffer, then the summary
EndOfInput ==
    /\ pc = "open" /\ stdin.read = Len(stdin.chunks)
    /\ Streamed(EndOf(instances[1].kind, StreamState))
    /\ UNCHANGED <<adapter, nParsed, pendingTools, pendingFunctions,
                   metadata, metadataEmitted, currentModel, stats, data, out,
                   emitted, open, answered, closed, stray, repeats, textsSeen,
                   firstRecord, failed, modelsSeen, ignored, written,
                   lastSeen, inputLines, unavailable, stdin>>

NextStream ==
    \/ ReadChunk
    \/ EndOfInput

\* One run of stream mode on an input that arrives in chunks
SpecStream == InitStream /\ [][NextStream]_vars

\* The input text of the run
StreamText == Flatten(stdin.chunks)

RECURSIVE ReadChunks(_, _, _)
ReadChunks(kind, st, chunks) ==
    IF Len(chunks) = 0 \/ st.threw THEN st
    ELSE ReadChunks(kind, ReadChunkOf(kind, st, Head(chunks)), Tail(chunks))

\* Stream mode on the chunks, from a new parser to the end
EndOfStream(kind, read) == IF read.threw THEN read ELSE EndOf(kind, read)
StreamRun(kind, chunks) ==
    EndOfStream(kind, ReadChunks(kind, NewStream(kind), chunks))

\* processFile of batch mode on a file that holds the text: the lines given
\* to parse() and the text written to the output file, none when a call
\* raises before Bun.write is reached and, in source B, none when the text
\* is blank
BatchWritten(kind, parsed) ==
    [fed |-> parsed.fed,
     written |-> IF parsed.threw THEN <<>>
                 ELSE IF kind = "codex" /\ ~NonEmpty(Trim(parsed.output))
                 THEN <<>>
                 ELSE parsed.output]
BatchRun(kind, text) ==
    BatchWritten(kind,
                 Finalized(kind, ParseLines(kind, NewStream(kind),
                                            LinesOf(split(text)))))

StreamEnded == instances # <<>> /\ pc \in {"finalized", "thrown"}

\* The lines given to parse() and the text written are those of stream mode
\* reading the same text as one chunk
SameAsOneChunk(inst, whole) ==
    /\ inst.fed = whole.fed
    /\ inst.output = whole.output
    /\ inst.finalized = whole.finalized

\* The lines given to parse() and the text written are those of batch mode
SameAsBatch(inst, batch) ==
    /\ inst.fed = batch.fed
    /\ inst.output = batch.written

\* Stream mode does not depend on the chunks: whatever the cuts, in the
\* middle of a line or not, with or without a line feed at the end, the
\* lines given to parse() and the text written are those of the same text
\* read as one chunk
ChunkingIndependent ==
    StreamEnded =>
        SameAsOneChunk(instances[1],
                       StreamRun(instances[1].kind,
                                 IF StreamText = <<>> THEN <<>>
                                 ELSE <<StreamText>>))

\* C34: when stream mode has ended, the lines it gave to parse() and the
\* text it wrote are the same for every cut of the input text into chunks,
\* a cut in the middle of a line and a text without a last line feed
\* included, and they are the lines that batch mode's split of the whole
\* text gives to parse() and the text batch mode writes after finalize().
C34_StreamAsBatch ==
    StreamEnded =>
        /\ SameAsOneChunk(instances[1],
                          StreamRun(instances[1].kind,
                                    IF StreamText = <<>> THEN <<>>
                                    ELSE <<StreamText>>))
        /\ SameAsBatch(instances[1], BatchRun(instances[1].kind, StreamText))

-----------------------------------------------------------------------------
(* The three adapters: the tool counters and the outcome lines *)

NextAdapters ==
    \/ ParseUser
    \/ ParseAssistant
    \/ Finalize
    \/ CodexParseResponseItem
    \/ CodexFinalize
    \/ LoadUnreadable
    \/ FormatSession

\* A session of one of the three adapters: the records of source A and of
\* source B that carry requests, results and texts, and the storage of the
\* fragmented source
SpecAdapters == (InitStreaming \/ InitOpenCode) /\ [][NextAdapters]_vars

\* C35: in every state of the three adapters the count of tool failures is
\* at most the count of tool calls, the count of tool calls is the number of
\* lines written so far under the success or the failure tag, and the count
\* of failures is the number of lines written so far under the failure tag.
C35_ToolCountsMatchOutcomeLines ==
    /\ ToolErrorCount <= ToolCallCount
    /\ ToolCallCount = emitted["toolSuccess"] + emitted["toolFailure"]
    /\ ToolErrorCount = emitted["toolFailure"]

\* Source A after a result flagged an error and one that is not
C35_Witness ==
    /\ adapter = "claude"
    /\ stats.toolCalls = 2
    /\ stats.toolErrors = 1
    /\ emitted["toolSuccess"] = 1
    /\ emitted["toolFailure"] = 1

-----------------------------------------------------------------------------
(* The three adapters: the message line of the summary and the turn lines *)

\* The message line of a summary that reports the counts
MessagesLine(users, assistants) ==
    <<EMOJI.metadata, " ", "Messages: ", ToString(users), " user, ",
      ToString(assistants), " assistant">>

\* C36: in each of the three adapters, when a summary is written its message
\* line reports as user and assistant counts the number of lines written in
\* the session under the user tag and under the assistant tag, which are the
\* counts the statistics reporter takes from the line prefixes; also when a
\* record holds several texts and when a text is blank.
C36_SummaryCountsAreTurnLines ==
    (pc \in {"finalized", "written"} /\ CountKind(out, "summary") > 0) =>
        LabelLines(out, "Messages: ")
            = << MessagesLine(emitted["user"], emitted["assistant"]) >>

-----------------------------------------------------------------------------
(* Sources A and B: the order of the lines *)

\* Records with several fragments each: texts before and after a request,
\* texts before and after a result, a second model, two results of which
\* the second answers the earlier request, a bare text
OrderRecords ==
    << Record(Envelope1, "assistant", Undefined,
              AssistantMessage("gpt-5", NoObject,
                               <<TextBlock(<<"a">>),
                                 ToolUseBlock("call_1", ReadA),
                                 TextBlock(<<"b">>)>>), <<>>),
       UserRecord(ArrayContent(<<TextBlock(<<"c">>),
                                 ToolResultBlock("call_1", Undefined),
                                 TextBlock(<<"d">>)>>)),
       Record(Envelope1, "assistant", Undefined,
              AssistantMessage("claude-opus-4-5-20251101", NoObject,
                               <<ToolUseBlock("call_2", EditA),
                                 TextBlock(<<"e">>)>>), <<>>),
       UserRecord(ArrayContent(<<ToolResultBlock("call_2", JsTrue),
                                 ToolResultBlock("call_1", Undefined)>>)),
       UserRecord(StringContent(<<"f">>)) >>
CodexOrderRecords ==
    << CodexRecord("2025-01-01T00:00:45Z", "turn_context", [model |-> "gpt-5"]),
       CodexRecord("2025-01-01T00:00:45Z", "response_item",
                   ResponseItem("message", "assistant",
                                ArrayContent(<<OutputText(<<"a">>),
                                               OutputText(<<"b">>)>>),
                                Undefined, NoObject, Undefined, <<>>)),
       CodexRecord("2025-01-01T00:00:45Z", "response_item",
                   ResponseItem("function_call", Undefined, NoContent, "shell",
                                ShellString(<<"ls">>), "call_1", <<>>)),
       CodexRecord("2025-01-01T00:00:45Z", "response_item",
                   ResponseItem("function_call_output", Undefined, NoContent,
                                Undefined, NoObject, "call_1",
                                <<"{", "\"exit_code\":", "1", "}">>)),
       UserMessageEvent(<<"c">>) >>

\* parser.parse(line) on the parser of the session, of source A or B
ParseOrder ==
    \/ ParseUpTo(1, OrderRecords, MaxReuseCalls)
    \/ CodexParseUpTo(1, CodexOrderRecords, MaxReuseCalls)

NextOrder ==
    \/ ParseOrder
    \/ FinalizeReuse

\* One session of source A or B whose records hold several fragments
SpecOrder == InitReuse /\ [][NextOrder]_vars

\* The lines due for the fragments of a record, in fragment order, read
\* without the parser: a line for each text, and for each result whose
\* request is pending the outcome of that request
RECURSIVE FragmentLines(_, _, _)
FragmentLines(role, blocks, acc) ==
    IF Len(blocks) = 0 THEN acc
    ELSE LET block == Head(blocks)
             next ==
                 IF block.type \in {"text", "output_text"}
                 THEN [acc EXCEPT !.lines = @ \o
                          (IF role = "assistant"
                           THEN Lines(formatAssistantText(block.text))
                           ELSE IF StartsWith(block.text, "<") THEN <<>>
                           ELSE Lines(formatUserMessage(block.text)))]
                 ELSE IF block.type = "tool_use"
                 THEN [acc EXCEPT !.pending =
                          MapSet(@, block.id, [name |-> block.name,
                                               input |-> block.input])]
                 ELSE IF block.type = "tool_result"
                         /\ MapHas(acc.pending, block.tool_use_id)
                 THEN [acc EXCEPT
                          !.pending = MapDelete(@, block.tool_use_id),
                          !.lines = @ \o Lines(formatToolCall(
                                                   acc.pending[block.tool_use_id],
                                                   block.is_error = JsTrue))]
                 ELSE acc
         IN  FragmentLines(role, Tail(blocks), next)

\* The same with a model-change line first when the record names a model
\* that is not the current one
ModelThenFragments(model, sentinel, role, blocks, acc) ==
    FragmentLines(role, blocks,
                  IF Truthy(model) /\ model # sentinel /\ model # acc.model
                  THEN [acc EXCEPT !.model = model,
                                   !.lines = @ \o Lines(formatModelChange(model))]
                  ELSE acc)

\* The lines due for one record
LinesDueOf(kind, record, acc) ==
    IF kind = "claude"
    THEN IF record.type = "assistant"
         THEN ModelThenFragments(record.message.model, "<synthetic>",
                                 "assistant", record.message.content.blocks,
                                 acc)
         ELSE IF record.message.content.kind = "string"
         THEN FragmentLines("user", <<TextBlock(record.message.content.text)>>,
                            acc)
         ELSE FragmentLines("user", record.message.content.blocks, acc)
    ELSE IF record.type = "turn_context"
    THEN ModelThenFragments(record.payload.model, Null, "assistant", <<>>, acc)
    ELSE IF record.type = "event_msg"
    THEN FragmentLines("user", <<TextBlock(record.payload.message)>>, acc)
    ELSE IF record.payload.type = "message"
    THEN FragmentLines("assistant", record.payload.content.blocks, acc)
    ELSE IF record.payload.type = "function_call"
    THEN [acc EXCEPT !.pending =
             MapSet(@, record.payload.call_id,
                    [name |-> record.payload.name,
                     arguments |-> record.payload.arguments])]
    ELSE IF MapHas(acc.pending, record.payload.call_id)
    THEN [acc EXCEPT
             !.pending = MapDelete(@, record.payload.call_id),
             !.lines = @ \o Lines(formatFunctionCall(
                                      acc.pending[record.payload.call_id],
                                      FunctionIsError(record.payload.output)))]
    ELSE acc

\* The lines due for the records, those of an earlier record first
RECURSIVE LinesDue(_, _, _)
LinesDue(kind, records, acc) ==
    IF Len(records) = 0 THEN acc
    ELSE LinesDue(kind, Tail(records), LinesDueOf(kind, Head(records), acc))

\* The lines of a text before its summary block that are turns, outcomes or
\* model changes
IsOrderedLine(line) ==
    LineKind(line) \in {"user", "assistant", "toolSuccess", "toolFailure",
                        "model"}
RECURSIVE BeforeSummary(_)
BeforeSummary(ls) ==
    IF Len(ls) = 0 \/ LineKind(Head(ls)) = "summary" THEN <<>>
    ELSE <<Head(ls)>> \o BeforeSummary(Tail(ls))
OrderedLines(text) == SelectSeq(BeforeSummary(Lines(text)), IsOrderedLine)

\* C37: in sources A and B the text written for a session holds the lines
\* of its records in the order of the records, the lines of an earlier
\* record before those of a later one; within a record the lines follow the
\* order of its fragments, the model-change line coming before the record's
\* texts; and the outcome of a request is written where the record of its
\* result stands, a result that comes before its request giving no line.
C37_OutputInInputOrder ==
    instances # <<>> =>
        OrderedLines(instances[1].output)
            = LinesDue(instances[1].kind, instances[1].fed,
                       [pending |-> EmptyMap, model |-> Null, lines |-> <<>>]
                      ).lines

\* Source A after an assistant record with a text, a request and a text, the
\* record of the result between two texts, and an assistant record of a
\* second model
C37_Witness ==
    /\ instances # <<>>
    /\ instances[1].kind = "claude"
    /\ instances[1].fed = <<OrderRecords[1], OrderRecords[2], OrderRecords[3]>>
    /\ [i \in 1..8 |-> LineKind(OrderedLines(instances[1].output)[i])]
           = <<"model", "assistant", "assistant", "user", "toolSuccess",
               "user", "model", "assistant">>
    /\ OrderedLines(instances[1].output)[5]
           = <<EMOJI.toolSuccess, " ", "Read", ": ">>
              \o formatToolInput("Read", ReadA.input)

=============================================================================
